---- MODULE Spec2Model ----
(***************************************************************************)
(* A model of the serial transport of sr-robot3: one SerialWrapper         *)
(* (src/sbot/serial_wrapper.py) shared by several caller threads, the      *)
(* retry decorator around query, and the serial port and board behind it.  *)
(*                                                                         *)
(* A second part models the discovery of Arduino boards                    *)
(* (src/sr/robot3/arduino.py): the scan of the enumerated serial ports and *)
(* of the manually given ports that builds the map of boards.              *)
(*                                                                         *)
(* A third part models single calls of functions: singular                 *)
(* (src/sbot/utils.py), the construction and the validation of one Arduino *)
(* and map_pin_number, the discovery of raw serial devices                 *)
(* (src/sr/robot3/raw_serial.py), and a function decorated with retry.     *)
(*                                                                         *)
(* A fourth part models the Robot (src/sr/robot3/robot.py): the instance   *)
(* lock, the construction with its power board, wait_start with the start  *)
(* button and the remote start event (src/sr/robot/astoria.py), and the    *)
(* metadata.                                                               *)
(*                                                                         *)
(* A fifth part models the pins of an Arduino (class Pin of                *)
(* src/sr/robot3/arduino.py) with their cached modes, and a sixth the user *)
(* LEDs of the simulator (src/sr/robot3/kch.py) set by several threads.    *)
(*                                                                         *)
(* Text is modelled as Python has it: a str is a sequence of one-character *)
(* strings, bytes are a sequence of code points; encode and decode convert *)
(* between the two.                                                        *)
(***************************************************************************)
EXTENDS Integers, Sequences, FiniteSets, TLC

(***************************************************************************)
(* Bounds of the model.                                                    *)
(***************************************************************************)
\* number of caller threads that share the wrapper
NThreads == 2
\* calls of public operations the threads make at most, all together
MaxCalls == 2
\* serial handles that can exist at a time; when none is free every open
\* fails
MaxHandles == 2
\* ports that comports() lists at most
MaxPorts == 2
\* entries of manual_boards at most
MaxManual == 2
\* entries of a map of boards at most
MaxBoards == 2
\* entries of the list of raw serial devices at most
MaxDevices == 2
\* processes of one host that construct a Robot
NRobots == 2
\* power boards a discovery finds at most
MaxPowerBoards == 2

\* @retry(times=3, ...)
Times == 3

Threads == 1..NThreads
Robots == 1..NRobots
\* "no thread" (an unlocked lock) and "no handle" (None)
NoThread == 0
None == 0

(***************************************************************************)
(* Text: str, bytes, and the conversions between them.                     *)
(***************************************************************************)
\* the code points of the characters that occur on the wire
Ascii ==
    ("\n" :> 10) @@ (" " :> 32) @@ (":" :> 58) @@
    ("A" :> 65) @@ ("C" :> 67) @@ ("K" :> 75) @@ ("N" :> 78) @@
    ("a" :> 97) @@ ("b" :> 98) @@ ("c" :> 99) @@ ("d" :> 100) @@
    ("e" :> 101) @@
    ("k" :> 107) @@ ("l" :> 108) @@ ("o" :> 111) @@ ("u" :> 117) @@
    ("v" :> 118)

Chars == DOMAIN Ascii

\* chr(): the character of a code point
Chr(n) == CHOOSE c \in Chars : Ascii[c] = n

\* str.encode()
Encode(s) == [i \in 1..Len(s) |-> Ascii[s[i]]]

\* bytes.decode()
Decode(b) == [i \in 1..Len(b) |-> Chr(b[i])]

\* the characters str.strip() removes
Whitespace == {" ", "\n"}

RECURSIVE LStrip(_)
LStrip(s) ==
    IF s # <<>> /\ Head(s) \in Whitespace THEN LStrip(Tail(s)) ELSE s

RECURSIVE RStrip(_)
RStrip(s) ==
    IF s # <<>> /\ s[Len(s)] \in Whitespace
    THEN RStrip(SubSeq(s, 1, Len(s) - 1))
    ELSE s

\* str.strip(): leading and trailing whitespace removed
Strip(s) == LStrip(RStrip(s))

\* sub in s
Contains(s, sub) ==
    \E i \in 1..(Len(s) - Len(sub) + 1) : SubSeq(s, i, i + Len(sub) - 1) = sub

\* s.split(':', maxsplit=1): one part when s has no colon, else two
SplitColon(s) ==
    IF \E i \in 1..Len(s) : s[i] = ":"
    THEN LET i == CHOOSE k \in 1..Len(s) :
                     s[k] = ":" /\ \A j \in 1..(k - 1) : s[j] # ":"
         IN  <<SubSeq(s, 1, i - 1), SubSeq(s, i + 1, Len(s))>>
    ELSE <<s>>

\* b'\n' in response
HasNewline(b) == \E i \in 1..Len(b) : b[i] = Ascii["\n"]

NACK == <<"N", "A", "C", "K">>

\* the messages of the errors the wrapper raises
BoardNotConnected ==
    <<"B","o","a","r","d"," ","n","o","t"," ","c","o","n","n","e","c","t","e","d">>
BoardDisconnected ==
    <<"B","o","a","r","d"," ","d","i","s","c","o","n","n","e","c","t","e","d">>
NoneTypeHasNoAttribute ==
    <<"N","o","n","e","T","y","p","e">>
NotEnoughValues ==
    <<"u","n","p","a","c","k">>

(***************************************************************************)
(* The callers' inputs and the board's answers.                            *)
(***************************************************************************)
\* the command a thread passes to query and write: every thread has its
\* own, 'a' for thread 1, 'b' for thread 2, ...
CommandOf(t) == <<Chr(Ascii["a"] + t - 1)>>

\* the terminated lines a board may answer with
BoardLines ==
    { Encode(<<"A","C","K","\n">>),
      Encode(<<"N","A","C","K",":","b","a","d"," ","v","a","l","u","e","\n">>),
      Encode(<<" ","o","k"," ","\n">>) }

\* what readline returns when its timeout ends before a line terminator
PartialLines == { <<>>, Encode(<<"A","C">>) }

\* the board behind the port: "echo" answers every command with the command
\* itself and never fails; "flaky" may answer, stay silent, or disappear
BoardKinds == {"echo", "flaky"}

Ops == {"query", "write", "start", "stop"}

\* what a call ended with
NoResult == [kind |-> "none", val |-> <<>>]
Return(v) == [kind |-> "return", val |-> v]
ReturnNone == [kind |-> "returnNone", val |-> <<>>]
Raise(k, m) == [kind |-> k, val |-> m]
\* self._metadata of a Robot that has loaded no metadata: None
NoMetadata == <<>>

VARIABLES
    board,       \* the kind of board behind the port
    pending,     \* command lines the board has received and not yet answered
    opened,      \* the serial handles that are open
    lock,        \* self._lock: the thread holding it, or NoThread
    connected,   \* self.connected
    serial,      \* self.serial: a handle or None
    th,          \* the frame of each caller thread, see IdleThread
    ncalls,      \* calls of public operations made so far
    called       \* the public operations called so far

\* the state of a discovery of Arduino boards
VARIABLES
    serial_ports,     \* what comports() returned: a sequence of port infos
    manual_boards,    \* the manual_boards argument: a sequence of port paths
    ignored_serials,  \* the ignored_serials argument
    at,               \* where the discovery is: the loop it is in ("ports",
                      \* "manual"), "returned", or "off" when none takes place
    idx,              \* the position of that loop in its list
    boards,           \* the boards dict: asset tag to board
    built,            \* the candidates an Arduino was constructed for
    valid,            \* the candidates whose construction succeeded
    held              \* the candidates whose transport has its port open

\* one call of a function of the package
VARIABLES
    callee,           \* the function called, or "none"
    arguments,        \* the arguments of the call
    returned          \* what the call ended with, NoResult until it has

\* the robots of one host
VARIABLES
    bound,            \* the processes whose socket is bound to the lock port
    robots,           \* the Robot object of each process, see NoRobotYet
    button,           \* the start button latch of the power board
    outputs           \* the outputs of the power board that are switched on

\* the pins of one Arduino and the caller that uses them
VARIABLES
    _mode,            \* self._mode of each pin
    requests,         \* the commands the pins gave to the transport, each
                      \* with how its transaction ended
    pinop,            \* the last operation on a pin, see NoPinOp
    npinops           \* operations on pins made so far

\* the simulated user LEDs and the threads that set them
VARIABLES
    leds,             \* the colour the LED board holds for each LED
    setters,          \* the frame of each thread in a setter, see IdleSetter
    nsets             \* calls of setters made so far

env == <<board, pending, opened>>
wrapper == <<lock, connected, serial>>
discovery == <<serial_ports, manual_boards, ignored_serials, at, idx,
               boards, built, valid, held>>
\* the state of the wrapper and its callers
transport == <<env, wrapper, th, ncalls, called>>
calls == <<callee, arguments, returned>>
robot == <<bound, robots, button, outputs>>
gpio == <<_mode, requests, pinop, npinops>>
lights == <<leds, setters, nsets>>
vars == <<transport, discovery, calls, robot, gpio, lights>>

\* no discovery takes place
NoDiscovery ==
    /\ serial_ports = <<>>
    /\ manual_boards = <<>>
    /\ ignored_serials = {}
    /\ at = "off"
    /\ idx = 0
    /\ boards = <<>>
    /\ built = {}
    /\ valid = {}
    /\ held = {}

\* no function is called
NoCall ==
    /\ callee = "none"
    /\ arguments = <<>>
    /\ returned = NoResult

\* A process that has not constructed its Robot.  The fields cause,
\* discarded, loaded and found are not in the code: they record what
\* wait_start and the constructor have seen.  The latch of the button and
\* the event are "clear", or set "before" or "during" a wait_start.
NoRobotYet ==
    [ pc               |-> "none",   \* where the process is
      _lock            |-> FALSE,    \* self._lock is a socket
      _no_powerboard   |-> FALSE,    \* self._no_powerboard
      _power_board     |-> FALSE,    \* self._power_board is set
      _metadata        |-> NoMetadata,   \* self._metadata
      _start_pressed   |-> "clear",  \* self._astoria._start_pressed
      astoria_metadata |-> NoMetadata,   \* self._astoria._metadata
      constructed      |-> FALSE,    \* Robot(...) has returned
      pressed          |-> FALSE,    \* get_start_button_pressed: pressed
      cause            |-> "clear",  \* the press that ended the last wait
      discarded        |-> FALSE,    \* wait_start has discarded a press
      loaded           |-> NoMetadata,   \* what the last wait_start fetched
      found            |-> 0,        \* power boards the discovery found
      result           |-> NoResult ]\* what the last property access gave

\* no Robot is constructed
NoRobot ==
    /\ bound = {}
    /\ robots = [r \in Robots |-> NoRobotYet]
    /\ button = "clear"
    /\ outputs = {}

\* no operation on a pin was made
NoPinOp == [op |-> "none", pin |-> 0, value |-> "", result |-> NoResult]

\* no pins are used
NoPins ==
    /\ _mode = <<>>
    /\ requests = <<>>
    /\ pinop = NoPinOp
    /\ npinops = 0

\* no LED is set
NoLights ==
    /\ leds = <<>>
    /\ setters = <<>>
    /\ nsets = 0

\* The frame of a thread that has made no call yet.  The fields nw and hw
\* are not in the code: they record what the call has done so far.
IdleThread ==
    [ pc         |-> "idle",  \* where the thread is
      op         |-> "none",  \* the public operation it is in
      cmd        |-> <<>>,    \* the data argument of the call
      attempt    |-> 0,       \* retryfn's attempt counter
      resp       |-> <<>>,    \* query: the terminated line readline returned
      result     |-> NoResult,\* what the last call ended with
      nw         |-> 0,       \* lines the call has written to the port
      hw         |-> None ]   \* the handle the current attempt wrote to

Init ==
    /\ board \in BoardKinds
    /\ pending = <<>>
    /\ opened = {}
    /\ lock = NoThread
    /\ connected = FALSE
    /\ serial = None
    /\ th = [t \in Threads |-> IdleThread]
    /\ ncalls = 0
    /\ called = {}
    /\ NoDiscovery
    /\ NoCall
    /\ NoRobot
    /\ NoPins
    /\ NoLights

(***************************************************************************)
(* A caller thread enters one of the public operations.                    *)
(***************************************************************************)
Enter(t, o, d, first) ==
    /\ th[t].pc = "idle"
    /\ ncalls < MaxCalls
    /\ th' = [th EXCEPT ![t] = [IdleThread EXCEPT
                                   !.pc = first, !.op = o, !.cmd = d]]
    /\ ncalls' = ncalls + 1
    /\ called' = called \cup {o}
    /\ UNCHANGED <<env, wrapper, discovery, calls, robot, gpio, lights>>

\* query(data): retryfn starts with attempt = 0 and invokes the function
CallQuery(t) == Enter(t, "query", CommandOf(t), "q_lock")

\* write(data)
CallWrite(t) == Enter(t, "write", CommandOf(t), "w_lock")

\* start(): runs _connect
CallStart(t) == Enter(t, "start", <<>>, "c_open")

\* stop(): runs _disconnect
CallStop(t) == Enter(t, "stop", <<>>, "d_check")

(***************************************************************************)
(* How an operation ends.  These give the thread's next frame.             *)
(***************************************************************************)
\* the operation of a thread with frame f ends with r; what the operation
\* was and the line it read stay on record until the thread's next call
Ended(f, r) ==
    [IdleThread EXCEPT !.result = r, !.op = f.op, !.resp = f.resp]

\* An exception of class k leaves query in a thread with frame f: retryfn
\* invokes query again when the exception is a RuntimeError and
\* attempt < times; otherwise (another class, or the last invocation, which
\* is outside the try) the exception propagates to the caller.
Retry(f, k, m) ==
    IF k = "RuntimeError" /\ f.attempt < Times
    THEN [f EXCEPT !.attempt = @ + 1, !.pc = "q_lock"]
    ELSE Ended(f, Raise(k, m))

\* write, after query returned response: a response containing NACK is split
\* at its first colon and the second part raised
WriteResult(response) ==
    IF Contains(response, NACK)
    THEN IF Len(SplitColon(response)) = 2
         THEN Raise("RuntimeError", SplitColon(response)[2])
         ELSE Raise("ValueError", NotEnoughValues)
    ELSE ReturnNone

\* query returns response.decode().strip(), to write when write called it
QueryResult(f, bytes) ==
    IF f.op = "write"
    THEN WriteResult(Strip(Decode(bytes)))
    ELSE Return(Strip(Decode(bytes)))

(***************************************************************************)
(* The locks.                                                              *)
(***************************************************************************)
\* write: with self._lock, then self.query(data)
WriteLock(t) ==
    /\ th[t].pc = "w_lock"
    /\ lock = NoThread
    /\ lock' = t
    /\ th' = [th EXCEPT ![t].pc = "q_lock"]
    /\ UNCHANGED <<env, connected, serial, ncalls, called,
                   discovery, calls, robot, gpio, lights>>

\* query that enters its body without waiting for the lock
QueryLockNoWait(t) ==
    /\ th[t].pc = "q_lock"
    /\ lock' = t
    /\ th' = [th EXCEPT ![t].pc = IF connected THEN "q_write" ELSE "c_open",
                        ![t].hw = None]
    /\ UNCHANGED <<env, connected, serial, ncalls, called,
                   discovery, calls, robot, gpio, lights>>

\* query: with self._lock, then if not self.connected
QueryLock(t) ==
    /\ th[t].pc = "q_lock"
    /\ lock = NoThread
    /\ lock' = t
    /\ th' = [th EXCEPT ![t].pc = IF connected THEN "q_write" ELSE "c_open",
                        ![t].hw = None]
    /\ UNCHANGED <<env, connected, serial, ncalls, called,
                   discovery, calls, robot, gpio, lights>>

(***************************************************************************)
(* _connect, run by start and by query.                                    *)
(***************************************************************************)
\* the handles that are neither open nor referred to
FreeHandles ==
    {h \in 1..MaxHandles :
        /\ h \notin opened
        /\ h # serial
        /\ \A t \in Threads : th[t].hw # h}

\* the port can be opened
CanOpen == FreeHandles # {}

\* opening the port can fail
CanFailOpen == board = "flaky" \/ ~CanOpen

\* the handle a successful open returns
NewHandle == CHOOSE h \in FreeHandles : \A g \in FreeHandles : h <= g

\* _connect that sets self.connected = True whether or not the open succeeded
ConnectOpenFlagsAnyway(t) ==
    /\ th[t].pc = "c_open"
    /\ \E ok \in BOOLEAN :
        IF ok
        THEN /\ CanOpen
             /\ opened' = opened \cup {NewHandle}
             /\ pending' = <<>>
             /\ serial' = NewHandle
             /\ th' = [th EXCEPT ![t].pc = "c_flag"]
             /\ UNCHANGED <<lock, connected>>
        ELSE /\ CanFailOpen
             /\ connected' = TRUE
             /\ UNCHANGED <<opened, pending, serial>>
             /\ IF th[t].op = "start"
                THEN /\ th' = [th EXCEPT ![t] = Ended(@, ReturnNone)]
                     /\ UNCHANGED lock
                ELSE /\ th' = [th EXCEPT ![t] =
                                 Retry(@, "RuntimeError", BoardNotConnected)]
                     /\ lock' = NoThread
    /\ UNCHANGED <<board, ncalls, called,
                   discovery, calls, robot, gpio, lights>>

\* self.serial = serial.Serial(port, baudrate, timeout): a new open handle
\* is stored (the board restarts when its port is opened), or Serial raises
\* SerialException, on which _connect returns False: start ends, query
\* raises RuntimeError('Board not connected')
ConnectOpen(t) ==
    /\ th[t].pc = "c_open"
    /\ \E ok \in BOOLEAN :
        IF ok
        THEN /\ CanOpen
             /\ opened' = opened \cup {NewHandle}
             /\ pending' = <<>>
             /\ serial' = NewHandle
             /\ th' = [th EXCEPT ![t].pc = "c_flag"]
             /\ UNCHANGED lock
        ELSE /\ CanFailOpen
             /\ UNCHANGED <<opened, pending, serial>>
             /\ IF th[t].op = "start"
                THEN /\ th' = [th EXCEPT ![t] = Ended(@, ReturnNone)]
                     /\ UNCHANGED lock
                ELSE /\ th' = [th EXCEPT ![t] =
                                 Retry(@, "RuntimeError", BoardNotConnected)]
                     /\ lock' = NoThread
    /\ UNCHANGED <<board, connected, ncalls, called,
                   discovery, calls, robot, gpio, lights>>

\* self.connected = True; return True
ConnectFlag(t) ==
    /\ th[t].pc = "c_flag"
    /\ connected' = TRUE
    /\ th' = [th EXCEPT ![t] = IF @.op = "start"
                               THEN Ended(@, ReturnNone)
                               ELSE [@ EXCEPT !.pc = "q_write"]]
    /\ UNCHANGED <<env, lock, serial, ncalls, called,
                   discovery, calls, robot, gpio, lights>>

(***************************************************************************)
(* The transaction of query: one write, one readline.                      *)
(***************************************************************************)
\* the line query sends: data + '\n', encoded
CommandLine(d) == Encode(d \o <<"\n">>)

\* query whose lock covers the write alone: it is released before the read
QueryWriteThenUnlock(t) ==
    /\ th[t].pc = "q_write"
    /\ IF serial = None
       THEN /\ th' = [th EXCEPT ![t] =
                        Retry(@, "AttributeError", NoneTypeHasNoAttribute)]
            /\ lock' = NoThread
            /\ UNCHANGED pending
       ELSE \E ok \in BOOLEAN :
                IF ok
                THEN /\ serial \in opened
                     /\ pending' = IF board = "echo"
                                   THEN Append(pending, CommandLine(th[t].cmd))
                                   ELSE pending
                     /\ th' = [th EXCEPT ![t].hw = serial, ![t].nw = @ + 1,
                                         ![t].pc = "q_read"]
                     /\ lock' = NoThread
                ELSE /\ board = "flaky" \/ serial \notin opened
                     /\ th' = [th EXCEPT ![t].hw = serial,
                                         ![t].pc = "d_check"]
                     /\ UNCHANGED <<pending, lock>>
    /\ UNCHANGED <<board, opened, connected, serial, ncalls, called,
                   discovery, calls, robot, gpio, lights>>

\* query that writes its command line twice in an attempt
QueryWriteTwice(t) ==
    /\ th[t].pc = "q_write"
    /\ IF serial = None
       THEN /\ th' = [th EXCEPT ![t] =
                        Retry(@, "AttributeError", NoneTypeHasNoAttribute)]
            /\ lock' = NoThread
            /\ UNCHANGED pending
       ELSE /\ \E ok \in BOOLEAN :
                IF ok
                THEN /\ serial \in opened
                     /\ pending' = IF board = "echo"
                                   THEN pending \o <<CommandLine(th[t].cmd),
                                                     CommandLine(th[t].cmd)>>
                                   ELSE pending
                     /\ th' = [th EXCEPT ![t].hw = serial, ![t].nw = @ + 2,
                                         ![t].pc = "q_read"]
                ELSE /\ board = "flaky" \/ serial \notin opened
                     /\ th' = [th EXCEPT ![t].hw = serial,
                                         ![t].pc = "d_check"]
                     /\ UNCHANGED pending
            /\ UNCHANGED lock
    /\ UNCHANGED <<board, opened, connected, serial, ncalls, called,
                   discovery, calls, robot, gpio, lights>>

\* self.serial.write(cmd.encode()): AttributeError when self.serial is None;
\* SerialException when the handle is closed or the port fails
QueryWrite(t) ==
    /\ th[t].pc = "q_write"
    /\ IF serial = None
       THEN /\ th' = [th EXCEPT ![t] =
                        Retry(@, "AttributeError", NoneTypeHasNoAttribute)]
            /\ lock' = NoThread
            /\ UNCHANGED pending
       ELSE /\ \E ok \in BOOLEAN :
                IF ok
                THEN /\ serial \in opened
                     /\ pending' = IF board = "echo"
                                   THEN Append(pending, CommandLine(th[t].cmd))
                                   ELSE pending
                     /\ th' = [th EXCEPT ![t].hw = serial, ![t].nw = @ + 1,
                                         ![t].pc = "q_read"]
                ELSE /\ board = "flaky" \/ serial \notin opened
                     /\ th' = [th EXCEPT ![t].hw = serial,
                                         ![t].pc = "d_check"]
                     /\ UNCHANGED pending
            /\ UNCHANGED lock
    /\ UNCHANGED <<board, opened, connected, serial, ncalls, called,
                   discovery, calls, robot, gpio, lights>>

\* what readline may return on an open handle: the echo board answers the
\* oldest command it has received, or nothing when it has received none
Readable ==
    IF board = "echo"
    THEN IF pending # <<>> THEN {Head(pending)} ELSE {<<>>}
    ELSE BoardLines \cup PartialLines

\* stands for a readline that raises SerialException instead of returning
\* bytes (a lone NUL is no line of the protocol)
PortError == <<0>>

\* response = self.serial.readline(), and what follows it: a response
\* without b'\n' is a timeout and raises SerialException, as a closed handle
\* or a failing port does; otherwise query returns and releases the lock
QueryRead(t) ==
    /\ th[t].pc = "q_read"
    /\ IF serial = None
       THEN /\ th' = [th EXCEPT ![t] =
                        Retry(@, "AttributeError", NoneTypeHasNoAttribute)]
            /\ lock' = NoThread
            /\ UNCHANGED pending
       ELSE \E bytes \in Readable \cup {PortError} :
                IF bytes # PortError /\ serial \in opened
                THEN /\ pending' = IF pending # <<>> THEN Tail(pending)
                                   ELSE pending
                     /\ IF HasNewline(bytes)
                        THEN /\ th' = [th EXCEPT ![t] =
                                         Ended([@ EXCEPT !.resp = bytes],
                                               QueryResult(@, bytes))]
                             /\ lock' = NoThread
                        ELSE /\ th' = [th EXCEPT ![t].pc = "d_check"]
                             /\ UNCHANGED lock
                ELSE /\ board = "flaky" \/ serial \notin opened
                     /\ th' = [th EXCEPT ![t].pc = "d_check"]
                     /\ UNCHANGED <<lock, pending>>
    /\ UNCHANGED <<board, opened, connected, serial, ncalls, called,
                   discovery, calls, robot, gpio, lights>>

(***************************************************************************)
(* _disconnect, run by stop and by query's except clause.                  *)
(***************************************************************************)
\* _disconnect returns in a thread with frame f: stop ends; query raises
\* RuntimeError('Board disconnected')
Disconnected(f) ==
    IF f.op = "stop"
    THEN Ended(f, ReturnNone)
    ELSE Retry(f, "RuntimeError", BoardDisconnected)

\* _disconnect without its test of self.serial
DisconnectNoCheck(t) ==
    /\ th[t].pc = "d_check"
    /\ th' = [th EXCEPT ![t].pc = "d_flag"]
    /\ UNCHANGED <<env, wrapper, ncalls, called,
                   discovery, calls, robot, gpio, lights>>

\* if self.serial is not None
DisconnectCheck(t) ==
    /\ th[t].pc = "d_check"
    /\ IF serial = None
       THEN /\ th' = [th EXCEPT ![t] = Disconnected(@)]
            /\ lock' = IF th[t].op = "stop" THEN lock ELSE NoThread
       ELSE /\ th' = [th EXCEPT ![t].pc = "d_flag"]
            /\ UNCHANGED lock
    /\ UNCHANGED <<env, connected, serial, ncalls, called,
                   discovery, calls, robot, gpio, lights>>

\* self.connected = False
DisconnectFlag(t) ==
    /\ th[t].pc = "d_flag"
    /\ connected' = FALSE
    /\ th' = [th EXCEPT ![t].pc = "d_close"]
    /\ UNCHANGED <<env, lock, serial, ncalls, called,
                   discovery, calls, robot, gpio, lights>>

\* self.serial.close(): AttributeError when self.serial has become None
DisconnectClose(t) ==
    /\ th[t].pc = "d_close"
    /\ IF serial = None
       THEN /\ th' = [th EXCEPT ![t] =
                        IF @.op = "stop"
                        THEN Ended(@, Raise("AttributeError",
                                            NoneTypeHasNoAttribute))
                        ELSE Retry(@, "AttributeError",
                                   NoneTypeHasNoAttribute)]
            /\ lock' = IF th[t].op = "stop" THEN lock ELSE NoThread
            /\ UNCHANGED opened
       ELSE /\ opened' = opened \ {serial}
            /\ th' = [th EXCEPT ![t].pc = "d_clear"]
            /\ UNCHANGED lock
    /\ UNCHANGED <<board, pending, connected, serial, ncalls, called,
                   discovery, calls, robot, gpio, lights>>

\* _disconnect that keeps the closed handle in self.serial
DisconnectKeepingHandle(t) ==
    /\ th[t].pc = "d_clear"
    /\ th' = [th EXCEPT ![t] = Disconnected(@)]
    /\ lock' = IF th[t].op = "stop" THEN lock ELSE NoThread
    /\ UNCHANGED <<env, connected, serial, ncalls, called,
                   discovery, calls, robot, gpio, lights>>

\* self.serial = None, and _disconnect returns
DisconnectClear(t) ==
    /\ th[t].pc = "d_clear"
    /\ serial' = None
    /\ th' = [th EXCEPT ![t] = Disconnected(@)]
    /\ lock' = IF th[t].op = "stop" THEN lock ELSE NoThread
    /\ UNCHANGED <<env, connected, ncalls, called,
                   discovery, calls, robot, gpio, lights>>

(***************************************************************************)
(* The program: threads call the public operations and run them a step at  *)
(* a time, interleaved in any order.                                       *)
(***************************************************************************)
\* a step of an operation in progress
Step(t) ==
    \/ WriteLock(t)
    \/ QueryLock(t)
    \/ ConnectOpen(t)
    \/ ConnectFlag(t)
    \/ QueryWrite(t)
    \/ QueryRead(t)
    \/ DisconnectCheck(t)
    \/ DisconnectFlag(t)
    \/ DisconnectClose(t)
    \/ DisconnectClear(t)

Call(t) ==
    \/ CallQuery(t)
    \/ CallWrite(t)
    \/ CallStart(t)
    \/ CallStop(t)

Next == \E t \in Threads : Call(t) \/ Step(t)

Spec == Init /\ [][Next]_vars

(***************************************************************************)
(* The program whose threads call nothing but query.                       *)
(***************************************************************************)
\* the steps of query
QueryStep(t) ==
    \/ QueryLock(t)
    \/ ConnectOpen(t)
    \/ ConnectFlag(t)
    \/ QueryWrite(t)
    \/ QueryRead(t)
    \/ DisconnectCheck(t)
    \/ DisconnectFlag(t)
    \/ DisconnectClose(t)
    \/ DisconnectClear(t)

NextQuery == \E t \in Threads : CallQuery(t) \/ QueryStep(t)

SpecQuery == Init /\ [][NextQuery]_vars

(***************************************************************************)
(* The program with a single caller at a time: a call is made only when    *)
(* no call is in progress.                                                 *)
(***************************************************************************)
NoCallInProgress == \A t \in Threads : th[t].pc = "idle"

NextSeq == \E t \in Threads : (NoCallInProgress /\ Call(t)) \/ Step(t)

SpecSeq == Init /\ [][NextSeq]_vars

\* every thread that can take a step eventually takes one
FairSpec == Spec /\ \A t \in Threads : WF_vars(Step(t))

TypeOK ==
    /\ board \in BoardKinds
    /\ lock \in Threads \cup {NoThread}
    /\ connected \in BOOLEAN
    /\ serial \in 0..MaxHandles
    /\ opened \subseteq 1..MaxHandles
    /\ called \subseteq Ops
    /\ ncalls \in 0..MaxCalls
    /\ \A t \in Threads :
        /\ th[t].attempt \in 0..Times
        /\ th[t].result.kind \in {"none", "return", "returnNone",
                                  "RuntimeError", "AttributeError",
                                  "ValueError"}

(***************************************************************************)
(* Discovery of Arduino boards: Arduino._get_supported_boards, outside the *)
(* simulator (IN_SIMULATOR is false).                                      *)
(***************************************************************************)
\* SUPPORTED_VID_PIDS, in decimal
SUPPORTED_VID_PIDS ==
    { <<9025, 67>>, <<10755, 67>>, <<6790, 29987>>, <<4292, 60000>>,
      <<5840, 1555>> }

\* the (vid, pid) pairs of the ports of the machine: an Arduino Uno rev 3,
\* and a device of another make (0x1234, 0x5678)
PortVidPids == { <<9025, 67>>, <<4660, 22136>> }

\* the USB serial numbers of the ports
SerialNumbers == {"TEST123", "TESTABC"}

\* the device paths of the ports comports() lists, in its order
DevicePaths == <<"test://1", "test://2", "test://3">>

\* the port paths a caller may give in manual_boards: the path of a port,
\* and a path that reads like a serial number
ManualPaths == {"test://2", "TEST123"}

\* the values of ignored_serials
IgnoreLists == { {}, {"TEST123"} }

\* the lists comports() may return
PortLists ==
    UNION { { [i \in 1..n |-> [ device        |-> DevicePaths[i],
                                manufacturer  |-> "Student Robotics",
                                product       |-> "Arduino",
                                serial_number |-> sn[i],
                                vid           |-> vp[i][1],
                                pid           |-> vp[i][2] ]] :
                sn \in [1..n -> SerialNumbers], vp \in [1..n -> PortVidPids] } :
            n \in 0..MaxPorts }

\* the values of manual_boards
ManualLists == UNION { [1..n -> ManualPaths] : n \in 0..MaxManual }

\* what a board may answer to the version query 'v': an SR firmware, another
\* firmware, an answer without a version field, and the answers of boards
\* that do not know the query
BoardResponses ==
    { <<"S","R","d","u","i","n","o",":","2",".","0">>,
      <<"A","r","d","u","i","n","o",":","4",".","3">>,
      <<"S","R","d","u","i","n","o">>,
      <<"N","A","C","K",":","I","n","v","a","l","i","d"," ",
        "c","o","m","m","a","n","d">>,
      <<"E","r","r","o","r",","," ","u","n","k","n","o","w","n"," ",
        "c","o","m","m","a","n","d",":"," ","v">> }

\* How self._serial.query('v') may end.  The transport opens the port when
\* the query is made; it either returns the board's response and keeps the
\* port open, or raises after its attempts and leaves the port closed.
QueryOutcomes ==
    { [raised |-> TRUE, response |-> <<>>, open |-> FALSE] } \cup
    { [raised |-> FALSE, response |-> r, open |-> TRUE] : r \in BoardResponses }

\* get_USB_identity(port): the asset tag is the USB serial number
GetUSBIdentity(port) ==
    [ manufacturer |-> port.manufacturer,
      board_type   |-> port.product,
      asset_tag    |-> port.serial_number ]

\* BoardIdentity(board_type='manual', asset_tag=manual_port)
ManualIdentity(manual_port) ==
    [manufacturer |-> "", board_type |-> "manual", asset_tag |-> manual_port]

\* s.startswith(p)
StartsWith(s, p) == Len(s) >= Len(p) /\ SubSeq(s, 1, Len(p)) = p

\* s.split(':')
RECURSIVE Split(_)
Split(s) ==
    IF Len(SplitColon(s)) = 1
    THEN <<s>>
    ELSE <<SplitColon(s)[1]>> \o Split(SplitColon(s)[2])

SR == <<"S", "R">>
\* the type Arduino.__init__ expects: 'SR*'
SRStar == <<"S", "R", "*">>

\* the construction that does not look at the board type
ArduinoInitUnvalidated(serial_port, initial_identity, outcome) ==
    IF outcome.raised
    THEN [raised |-> "Exception", open |-> outcome.open]
    ELSE LET response_fields == Split(outcome.response)
         IN  IF Len(response_fields) < 2
             THEN [raised |-> "IndexError", open |-> outcome.open]
             ELSE [raised |-> "none", open |-> outcome.open,
                   port |-> serial_port,
                   identity |->
                     [ manufacturer |-> IF StartsWith(response_fields[1], SR)
                                        THEN "Student Robotics"
                                        ELSE "Arduino",
                       board_type   |-> response_fields[1],
                       asset_tag    |-> initial_identity.asset_tag,
                       sw_version   |-> response_fields[2] ]]

\* the construction that keeps the board type of the provisional identity
ArduinoInitKeepingType(serial_port, initial_identity, outcome) ==
    IF outcome.raised
    THEN [raised |-> "Exception", open |-> outcome.open]
    ELSE LET response_fields == Split(outcome.response)
         IN  IF Len(response_fields) < 2
             THEN [raised |-> "IndexError", open |-> outcome.open]
             ELSE IF ~StartsWith(response_fields[1], SR)
             THEN [raised |-> "IncorrectBoardError", open |-> outcome.open,
                   returned_type |-> response_fields[1],
                   expected_type |-> SRStar]
             ELSE [raised |-> "none", open |-> outcome.open,
                   port |-> serial_port,
                   identity |->
                     [ manufacturer |-> "Student Robotics",
                       board_type   |-> <<initial_identity.board_type>>,
                       asset_tag    |-> initial_identity.asset_tag,
                       sw_version   |-> response_fields[2] ]]

\* Arduino.__init__(serial_port, initial_identity) when the query of
\* identify() ends with outcome: raises what the query raised, IndexError
\* when the response has no second field, IncorrectBoardError when the board
\* type does not start with 'SR'; otherwise the board is made.  open tells
\* whether the transport of the Arduino has its port open afterwards.
ArduinoInit(serial_port, initial_identity, outcome) ==
    IF outcome.raised
    THEN [raised |-> "Exception", open |-> outcome.open]
    ELSE LET response_fields == Split(outcome.response)
         IN  IF Len(response_fields) < 2
             THEN [raised |-> "IndexError", open |-> outcome.open]
             ELSE IF ~StartsWith(response_fields[1], SR)
             THEN [raised |-> "IncorrectBoardError", open |-> outcome.open,
                   returned_type |-> response_fields[1],
                   expected_type |-> SRStar]
             ELSE [raised |-> "none", open |-> outcome.open,
                   port |-> serial_port,
                   identity |->
                     [ manufacturer |-> IF StartsWith(response_fields[1], SR)
                                        THEN "Student Robotics"
                                        ELSE "Arduino",
                       board_type   |-> response_fields[1],
                       asset_tag    |-> initial_identity.asset_tag,
                       sw_version   |-> response_fields[2] ]]

\* logger.warning(message)
Warning(message) == [level |-> "WARNING", message |-> message]

\* repr(s) of a str s that has no quote in it
Repr(s) == <<"'">> \o s \o <<"'">>

\* Arduino._get_valid_board(serial_port, initial_identity) when the query of
\* identify() ends with outcome: the board, or None after a warning.  The
\* failure of a port found by its USB descriptor is not logged: the last
\* warning of the method is for a call without an identity.
GetValidBoard(serial_port, initial_identity, outcome) ==
    LET made == ArduinoInit(serial_port, initial_identity, outcome)
    IN  IF made.raised = "IncorrectBoardError"
        THEN [ valid |-> FALSE,
               log   |-> << Warning(<<"Board returned type ">>
                                    \o Repr(made.returned_type)
                                    \o <<", expected ">>
                                    \o Repr(made.expected_type)
                                    \o <<". Ignoring this device">>) >> ]
        ELSE IF made.raised # "none"
        THEN [ valid |-> FALSE,
               log   |->
                 IF initial_identity.board_type = "manual"
                 THEN << Warning(<<"Manually specified Arduino at port ">>
                                 \o Repr(<<serial_port>>)
                                 \o <<" could not be identified. ",
                                      "Ignoring this device">>) >>
                 ELSE IF initial_identity.manufacturer = "sbot_simulator"
                 THEN << Warning(<<"Simulator specified arduino at port ">>
                                 \o Repr(<<serial_port>>)
                                 \o <<" could not be identified. ",
                                      "Ignoring this device">>) >>
                 ELSE <<>> ]
        ELSE [valid |-> TRUE, board |-> made, log |-> <<>>]

\* the body of the loop that keeps the board whatever its type is
CandidateOfAnyType(c, serial_port, initial_identity) ==
    \E outcome \in QueryOutcomes, finalized \in BOOLEAN :
        LET made == ArduinoInitUnvalidated(serial_port, initial_identity,
                                           outcome)
        IN  /\ built' = built \cup {c}
            /\ IF made.raised # "none"
               THEN /\ UNCHANGED <<boards, valid>>
                    /\ held' = IF made.open /\ ~finalized
                               THEN held \cup {c} ELSE held
               ELSE LET key == made.identity.asset_tag
                        new == [cand |-> c, port |-> made.port,
                                identity |-> made.identity]
                    IN  /\ boards' = (key :> new) @@ boards
                        /\ valid' = valid \cup {c}
                        /\ held' =
                             IF key \in DOMAIN boards /\ finalized
                             THEN (held \ {boards[key].cand}) \cup {c}
                             ELSE held \cup {c}

\* The body of a loop for one candidate c: _get_valid_board constructs the
\* Arduino and returns None when the construction raises, and the loop puts
\* a board under its asset tag.  Nothing closes the port of an Arduino whose
\* construction raised after the query, nor that of a board whose key is
\* taken over: the port is closed when the object is finalized, if it is.
Candidate(c, serial_port, initial_identity) ==
    \E outcome \in QueryOutcomes, finalized \in BOOLEAN :
        LET made == ArduinoInit(serial_port, initial_identity, outcome)
        IN  /\ built' = built \cup {c}
            /\ IF made.raised # "none"
               THEN /\ UNCHANGED <<boards, valid>>
                    /\ held' = IF made.open /\ ~finalized
                               THEN held \cup {c} ELSE held
               ELSE LET key == made.identity.asset_tag
                        new == [cand |-> c, port |-> made.port,
                                identity |-> made.identity]
                    IN  /\ boards' = (key :> new) @@ boards
                        /\ valid' = valid \cup {c}
                        /\ held' =
                             IF key \in DOMAIN boards /\ finalized
                             THEN (held \ {boards[key].cand}) \cup {c}
                             ELSE held \cup {c}

\* the loop over the ports without the test of (vid, pid)
ProbePortAnyVidPid ==
    /\ at = "ports"
    /\ idx <= Len(serial_ports)
    /\ LET port == serial_ports[idx]
           initial_identity == GetUSBIdentity(port)
       IN  IF initial_identity.asset_tag \in ignored_serials
           THEN UNCHANGED <<boards, built, valid, held>>
           ELSE Candidate(<<"usb", idx>>, port.device, initial_identity)
    /\ idx' = idx + 1
    /\ UNCHANGED <<serial_ports, manual_boards, ignored_serials, at,
                   transport, calls, robot, gpio, lights>>

\* the loop over the ports without the test of ignored_serials
ProbePortIgnoringNothing ==
    /\ at = "ports"
    /\ idx <= Len(serial_ports)
    /\ LET port == serial_ports[idx]
           initial_identity == GetUSBIdentity(port)
       IN  IF <<port.vid, port.pid>> \notin SUPPORTED_VID_PIDS
           THEN UNCHANGED <<boards, built, valid, held>>
           ELSE Candidate(<<"usb", idx>>, port.device, initial_identity)
    /\ idx' = idx + 1
    /\ UNCHANGED <<serial_ports, manual_boards, ignored_serials, at,
                   transport, calls, robot, gpio, lights>>

\* for port in serial_ports: a port whose (vid, pid) is not supported or
\* whose serial number is ignored is passed over
ProbePort ==
    /\ at = "ports"
    /\ idx <= Len(serial_ports)
    /\ LET port == serial_ports[idx]
           initial_identity == GetUSBIdentity(port)
       IN  IF \/ <<port.vid, port.pid>> \notin SUPPORTED_VID_PIDS
              \/ initial_identity.asset_tag \in ignored_serials
           THEN UNCHANGED <<boards, built, valid, held>>
           ELSE Candidate(<<"usb", idx>>, port.device, initial_identity)
    /\ idx' = idx + 1
    /\ UNCHANGED <<serial_ports, manual_boards, ignored_serials, at,
                   transport, calls, robot, gpio, lights>>

\* the loop over the ports is over: on to manual_boards
PortsDone ==
    /\ at = "ports"
    /\ idx > Len(serial_ports)
    /\ at' = "manual"
    /\ idx' = 1
    /\ UNCHANGED <<serial_ports, manual_boards, ignored_serials,
                   boards, built, valid, held, transport, calls, robot,
                   gpio, lights>>

\* the loop over manual_boards that gives up at the first candidate whose
\* construction raises
ProbeManualGivingUp ==
    /\ at = "manual"
    /\ idx <= Len(manual_boards)
    /\ LET manual_port == manual_boards[idx]
       IN  Candidate(<<"manual", idx>>, manual_port,
                     ManualIdentity(manual_port))
    /\ idx' = IF <<"manual", idx>> \in valid'
              THEN idx + 1 ELSE Len(manual_boards) + 1
    /\ UNCHANGED <<serial_ports, manual_boards, ignored_serials, at,
                   transport, calls, robot, gpio, lights>>

\* the loop over manual_boards that keys a board by its board type
ProbeManualKeyedByType ==
    /\ at = "manual"
    /\ idx <= Len(manual_boards)
    /\ LET manual_port == manual_boards[idx]
       IN  Candidate(<<"manual", idx>>, manual_port,
                     [board_type |-> "manual", asset_tag |-> "manual"])
    /\ idx' = idx + 1
    /\ UNCHANGED <<serial_ports, manual_boards, ignored_serials, at,
                   transport, calls, robot, gpio, lights>>

\* for manual_port in manual_boards
ProbeManual ==
    /\ at = "manual"
    /\ idx <= Len(manual_boards)
    /\ LET manual_port == manual_boards[idx]
       IN  Candidate(<<"manual", idx>>, manual_port,
                     ManualIdentity(manual_port))
    /\ idx' = idx + 1
    /\ UNCHANGED <<serial_ports, manual_boards, ignored_serials, at,
                   transport, calls, robot, gpio, lights>>

\* return MappingProxyType(boards)
ReturnBoards ==
    /\ at = "manual"
    /\ idx > Len(manual_boards)
    /\ at' = "returned"
    /\ UNCHANGED <<serial_ports, manual_boards, ignored_serials, idx,
                   boards, built, valid, held, transport, calls, robot,
                   gpio, lights>>

\* _get_supported_boards is called: comports() has returned its list, and
\* boards is empty.  No wrapper of the first part takes part.
InitDiscovery ==
    /\ serial_ports \in PortLists
    /\ manual_boards \in ManualLists
    /\ ignored_serials \in IgnoreLists
    /\ at = "ports"
    /\ idx = 1
    /\ boards = <<>>
    /\ built = {}
    /\ valid = {}
    /\ held = {}
    /\ board = "echo"
    /\ pending = <<>>
    /\ opened = {}
    /\ lock = NoThread
    /\ connected = FALSE
    /\ serial = None
    /\ th = [t \in Threads |-> IdleThread]
    /\ ncalls = 0
    /\ called = {}
    /\ NoCall
    /\ NoRobot
    /\ NoPins
    /\ NoLights

NextDiscovery ==
    \/ ProbePort
    \/ PortsDone
    \/ ProbeManual
    \/ ReturnBoards

SpecDiscovery == InitDiscovery /\ [][NextDiscovery]_vars

(***************************************************************************)
(* Functions of the package, each called once on arguments of a bounded    *)
(* set: singular (src/sbot/utils.py), the construction of an Arduino and   *)
(* _get_valid_board (src/sr/robot3/arduino.py), and the discovery of raw   *)
(* serial devices (src/sr/robot3/raw_serial.py).                           *)
(***************************************************************************)
\* the keys and the values of the maps singular is given
AssetTags == {"a", "b", "c"}
BoardValues == {"x", "y"}

\* the maps of at most MaxBoards boards
Containers ==
    UNION { [S -> BoardValues] :
              S \in { T \in SUBSET AssetTags : Cardinality(T) <= MaxBoards } }

\* the digits of the bases up to 16
HexDigits ==
    <<"0","1","2","3","4","5","6","7","8","9","a","b","c","d","e","f">>

\* str(n) of a natural number n
RECURSIVE Str(_)
Str(n) ==
    IF n < 10
    THEN <<HexDigits[n + 1]>>
    ELSE Str(n \div 10) \o <<HexDigits[(n % 10) + 1]>>

\* the message of singular for an empty map
NoBoardsFound == <<"No boards of this type found">>
\* the message of singular for a map of length boards
ExpectedOnlyOne(length) ==
    <<"expected only one to be connected, but found ">> \o Str(length)

\* container.values(): a view of the values of the dict, which can be
\* iterated over and is not itself an iterator
values(container) ==
    [ type  |-> "dict_values",
      items |-> { container[k] : k \in DOMAIN container } ]

\* next(iterator): the next item of an iterator; an object that is not an
\* iterator is a TypeError
next(iterator) ==
    IF iterator.type # "iterator"
    THEN Raise("TypeError",
               <<"'", iterator.type, "' object is not an iterator">>)
    ELSE IF iterator.items = {}
    THEN Raise("StopIteration", <<>>)
    ELSE Return(CHOOSE v \in iterator.items : TRUE)

\* singular that returns one of several boards
singularOfSeveral(container) ==
    LET length == Cardinality(DOMAIN container)
    IN  IF length = 0
        THEN Raise("RuntimeError", NoBoardsFound)
        ELSE Return(CHOOSE v \in values(container).items : TRUE)

\* singular(container)
singular(container) ==
    LET length == Cardinality(DOMAIN container)
    IN  IF length = 1
        THEN next(values(container))
        ELSE IF length = 0
        THEN Raise("RuntimeError", NoBoardsFound)
        ELSE Raise("RuntimeError", ExpectedOnlyOne(length))

\* singular is called
CallSingular ==
    /\ callee = "singular"
    /\ returned = NoResult
    /\ returned' = singular(arguments[1])
    /\ UNCHANGED <<callee, arguments, transport, discovery, robot,
                   gpio, lights>>

\* the arguments discovery gives to _get_valid_board: the device of a port
\* with the identity of its USB descriptor, or a manual path with the
\* identity made of it
ArduinoArguments ==
    UNION { { <<l[i].device, GetUSBIdentity(l[i])>> : i \in DOMAIN l } :
              l \in PortLists } \cup
    { <<m, ManualIdentity(m)>> : m \in ManualPaths }

\* Arduino(serial_port, initial_identity) is called
CallArduino ==
    /\ callee = "Arduino"
    /\ returned = NoResult
    /\ returned' = ArduinoInit(arguments[1], arguments[2], arguments[3])
    /\ UNCHANGED <<callee, arguments, transport, discovery, robot,
                   gpio, lights>>

\* Arduino._get_valid_board(serial_port, initial_identity) is called
CallGetValidBoard ==
    /\ callee = "_get_valid_board"
    /\ returned = NoResult
    /\ returned' = GetValidBoard(arguments[1], arguments[2], arguments[3])
    /\ UNCHANGED <<callee, arguments, transport, discovery, robot,
                   gpio, lights>>

\* the serial numbers and the baud rates a caller may ask raw devices for
RequestedSerials == {"TEST123", "OTHER"}
Baudrates == {115200, 9600}

\* the values of serial_devices: pairs of a serial number and a baud rate
DeviceLists ==
    UNION { [1..n -> RequestedSerials \X Baudrates] : n \in 0..MaxDevices }

\* the sets of devices whose port cannot be opened
FailingDevices == SUBSET { DevicePaths[i] : i \in 1..MaxPorts }

\* f"{n:04x}" of a number below 16^4
Hex4(n) ==
    << HexDigits[((n \div 4096) % 16) + 1],
       HexDigits[((n \div 256) % 16) + 1],
       HexDigits[((n \div 16) % 16) + 1],
       HexDigits[(n % 16) + 1] >>

\* device_lookup: the requested device of each serial number; of several
\* with one serial number the dict keeps the last
DeviceLookup(serial_devices) ==
    [ sn \in { serial_devices[k][1] : k \in DOMAIN serial_devices } |->
        LET last == CHOOSE k \in DOMAIN serial_devices :
                        /\ serial_devices[k][1] = sn
                        /\ \A j \in DOMAIN serial_devices :
                               serial_devices[j][1] = sn => j <= k
        IN  [ serial_number |-> serial_devices[last][1],
              baudrate      |-> serial_devices[last][2] ] ]

\* the lookup that gives every device the default baud rate
DefaultLookup(serial_devices) ==
    [ sn \in { serial_devices[k][1] : k \in DOMAIN serial_devices } |->
        [serial_number |-> sn, baudrate |-> 115200] ]

\* The loop of RawSerial._get_supported_boards from the port at position i
\* on.  acc holds the boards dict, the calls of serial_for_url made and the
\* warnings logged so far; failing are the devices serial_for_url raises
\* for.
RECURSIVE RawSerialLoop(_, _, _, _, _)
RawSerialLoop(ports, i, device_lookup, failing, acc) ==
    IF i > Len(ports)
    THEN acc
    ELSE LET port == ports[i]
         IN  IF port.serial_number \notin DOMAIN device_lookup
             THEN RawSerialLoop(ports, i + 1, device_lookup, failing,
                                acc)
             ELSE LET found_device == device_lookup[port.serial_number]
                      identity ==
                        [ manufacturer |-> GetUSBIdentity(port).manufacturer,
                          board_type   |-> GetUSBIdentity(port).board_type,
                          asset_tag    |-> GetUSBIdentity(port).asset_tag,
                          sw_version   |-> Hex4(port.vid) \o <<":">>
                                           \o Hex4(port.pid) ]
                      call == [ url      |-> port.device,
                                baudrate |-> found_device.baudrate ]
                      new == [ port     |-> port.device,
                               baudrate |-> found_device.baudrate,
                               identity |-> identity ]
                  IN  IF port.device \in failing
                      THEN RawSerialLoop(
                             ports, i + 1, device_lookup, failing,
                             [acc EXCEPT
                                !.calls = Append(@, call),
                                !.log = Append(@, Warning(
                                   <<"Failed to connect to ",
                                     found_device.serial_number>>))])
                      ELSE RawSerialLoop(
                             ports, i + 1, device_lookup, failing,
                             [acc EXCEPT
                                !.calls = Append(@, call),
                                !.boards = (identity.asset_tag :> new) @@ @])

\* raw discovery that opens every port at the default baud rate
RawSerialBoardsAtDefaultBaud(serial_devices, ports, failing) ==
    RawSerialLoop(ports, 1, DefaultLookup(serial_devices), failing,
                  [boards |-> <<>>, calls |-> <<>>, log |-> <<>>])

\* RawSerial._get_supported_boards(serial_devices) when comports() returns
\* the list ports: the boards, with the calls of serial_for_url it made
RawSerialBoards(serial_devices, ports, failing) ==
    RawSerialLoop(ports, 1, DeviceLookup(serial_devices), failing,
                  [boards |-> <<>>, calls |-> <<>>, log |-> <<>>])

\* RawSerial._get_supported_boards(serial_devices) is called
CallRawSerialBoards ==
    /\ callee = "RawSerial._get_supported_boards"
    /\ returned = NoResult
    /\ returned' = RawSerialBoards(arguments[1], arguments[2], arguments[3])
    /\ UNCHANGED <<callee, arguments, transport, discovery, robot,
                   gpio, lights>>

\* the printable characters of ASCII, in the order of their code points,
\* the first being the space with code point 32; the grave accent (code
\* point 96), which a string of TLA+ cannot hold, is written by its name
Printable ==
    <<" ","!","\"","#","$","%","&","'","(",")","*","+",",","-",".","/",
      "0","1","2","3","4","5","6","7","8","9",":",";","<","=",">","?",
      "@","A","B","C","D","E","F","G","H","I","J","K","L","M","N","O",
      "P","Q","R","S","T","U","V","W","X","Y","Z","[","\\","]","^","_",
      "GRAVE ACCENT","a","b","c","d","e","f","g","h","i","j","k","l","m",
      "n","o","p","q","r","s","t","u","v","w","x","y","z","{","|","}","~">>

\* chr(i) of a printable code point
chr(i) == Printable[i - 31]

\* ord(c) of a printable character
ord(c) == 31 + CHOOSE i \in DOMAIN Printable : Printable[i] = c

\* the pins of an Arduino: 0 and 1 carry the serial link, 2 to 13 are
\* digital, 14 to 19 are the analog pins A0 to A5
NumPins == 20
FirstAnalogPin == 14
PinIndexes == 0..(NumPins - 1)

\* self._pins as Arduino.__init__ builds it.  The tuple is indexed from 0
\* as in Python; _mode is the mode a new Pin caches.
ArduinoPins ==
    [ index \in PinIndexes |->
        [ _index           |-> index,
          _supports_analog |-> index >= FirstAnalogPin,
          _disabled        |-> index < 2,
          _mode            |-> "INPUT" ] ]

\* tuple[i] for a tuple of length n: the position i stands for, counted
\* from 0, a negative i counting from the end; n (no position) when the
\* subscript raises IndexError
Subscript(n, i) ==
    IF 0 <= i /\ i < n THEN i
    ELSE IF i < 0 /\ 0 - n <= i THEN n + i
    ELSE n

\* the message of the ValueError of map_pin_number
InvalidPinProvided == <<"Invalid pin provided">>

\* Arduino.map_pin_number(pin_number)
map_pin_number(pin_number) ==
    LET at_ == Subscript(NumPins, pin_number)
    IN  IF at_ = NumPins
        THEN Raise("ValueError", InvalidPinProvided)   \* IndexError
        ELSE IF ArduinoPins[at_]._disabled
        THEN Raise("ValueError", InvalidPinProvided)   \* IOError
        ELSE Return(<<chr(pin_number + ord("a"))>>)

\* the pin numbers a caller may pass: those of the pins, and numbers on
\* both sides of them
PinNumbers == (0 - NumPins - 2)..(NumPins + 1)

\* Arduino.map_pin_number(pin_number) is called
CallMapPinNumber ==
    /\ callee = "map_pin_number"
    /\ returned = NoResult
    /\ returned' = map_pin_number(arguments[1])
    /\ UNCHANGED <<callee, arguments, transport, discovery, robot,
                   gpio, lights>>

\* the classes of the exceptions an invocation may raise, each with its
\* base classes below Exception
Bases ==
    [ RuntimeError        |-> {"RuntimeError"},
      NotImplementedError |-> {"NotImplementedError", "RuntimeError"},
      ValueError          |-> {"ValueError"} ]
ExceptionClasses == DOMAIN Bases

\* except exceptions: an exception of class k is caught
Caught(k, exceptions) == Bases[k] \cap exceptions # {}

\* retry that catches every exception
RECURSIVE retryfnCatchingAll(_, _, _, _)
retryfnCatchingAll(times, exceptions, runs, attempt) ==
    LET r == [runs[attempt + 1] EXCEPT !.invoked = attempt + 1]
    IN  IF attempt < times /\ r.kind # "return"
        THEN retryfnCatchingAll(times, exceptions, runs, attempt + 1)
        ELSE r

\* retryfn of retry(times, exceptions), from the value attempt of its
\* counter on.  runs[k] is what the k-th invocation of func ends with; the
\* result is what retryfn ends with, and in invoked the invocations made.
RECURSIVE retryfn(_, _, _, _)
retryfn(times, exceptions, runs, attempt) ==
    LET r == [runs[attempt + 1] EXCEPT !.invoked = attempt + 1]
    IN  IF attempt < times
        THEN IF r.kind = "return"
             THEN r
             ELSE IF Caught(r.kind, exceptions)
             THEN retryfn(times, exceptions, runs, attempt + 1)
             ELSE r
        ELSE r

\* what the invocations of a function may end with, one after the other:
\* the k-th returns the text of k or raises an exception with that message
Runs ==
    { [k \in 1..(Times + 1) |->
          [kind |-> kinds[k], val |-> Str(k), invoked |-> 0]] :
      kinds \in [1..(Times + 1) -> {"return"} \cup ExceptionClasses] }

\* the classes a caller may configure
Configured == { {"RuntimeError"}, {"ValueError"} }

\* a function decorated with retry(times, exceptions) is called
CallRetry ==
    /\ callee = "retry"
    /\ returned = NoResult
    /\ returned' = retryfn(arguments[1], arguments[2], arguments[3], 0)
    /\ UNCHANGED <<callee, arguments, transport, discovery, robot,
                   gpio, lights>>

\* The calls: a function and its arguments.  With the arguments of the
\* caller come the things of the environment the call depends on: how the
\* query of identify ends, what comports() returns and the devices that
\* cannot be opened.
Calls ==
    { <<"singular", <<c>>>> : c \in Containers } \cup
    { <<f, <<a[1], a[2], o>>>> :
        f \in {"Arduino", "_get_valid_board"},
        a \in ArduinoArguments, o \in QueryOutcomes } \cup
    { <<"RawSerial._get_supported_boards", <<d, l, f>>>> :
        d \in DeviceLists, l \in PortLists, f \in FailingDevices } \cup
    { <<"map_pin_number", <<n>>>> : n \in PinNumbers } \cup
    { <<"retry", <<times, e, runs>>>> :
        times \in 0..Times, e \in Configured, runs \in Runs }

InitCalls ==
    /\ \E c \in Calls : callee = c[1] /\ arguments = c[2]
    /\ returned = NoResult
    /\ NoDiscovery
    /\ NoRobot
    /\ NoPins
    /\ NoLights
    /\ board = "echo"
    /\ pending = <<>>
    /\ opened = {}
    /\ lock = NoThread
    /\ connected = FALSE
    /\ serial = None
    /\ th = [t \in Threads |-> IdleThread]
    /\ ncalls = 0
    /\ called = {}

NextCalls ==
    \/ CallSingular
    \/ CallArduino
    \/ CallGetValidBoard
    \/ CallRawSerialBoards
    \/ CallMapPinNumber
    \/ CallRetry

SpecCalls == InitCalls /\ [][NextCalls]_vars

(***************************************************************************)
(* The Robot (src/sr/robot3/robot.py) outside the simulator: the instance  *)
(* lock, the construction, wait_start with the two start signals, and the  *)
(* properties that depend on them.  The power board, its discovery and     *)
(* singular are imported from other modules of the package: the            *)
(* constructor is modelled with what robot.py says of them.                *)
(***************************************************************************)
\* Metadata.init(config), and the metadata of a match
InitialMetadata == [arena |-> "A", zone |-> 0, mode |-> "DEV"]
Metadatas == { InitialMetadata, [arena |-> "B", zone |-> 1, mode |-> "COMP"] }

\* the outputs power_on() switches on
PowerOutputs == {0, 1, 2, 3, 5, 6}

\* how many power boards PowerBoard._get_supported_boards may find
PowerBoardsFound == 0..MaxPowerBoards

\* singular(power_boards) as robot.py imports it: it returns the board when
\* exactly one was found, and raises RuntimeError otherwise
SingularPowerBoard(found) ==
    IF found = 1 THEN Return(<<"PowerBoard">>)
    ELSE IF found = 0 THEN Raise("RuntimeError", NoBoardsFound)
    ELSE Raise("RuntimeError", ExpectedOnlyOne(found))

\* where a process is while its Robot is in wait_start: the two reads that
\* discard earlier presses, the loop, and the load of the metadata
WaitPcs ==
    {"ws_button", "ws_isset", "ws_clear",
     "loop_button", "loop_isset", "loop_clear", "loop_sleep", "load"}

\* where it is while in the loop of wait_start
LoopPcs == {"loop_button", "loop_isset", "loop_clear", "loop_sleep"}

\* where a process is once _init_aux_boards has run
AfterAux == WaitPcs \cup {"ready"}

\* where a process is while it has an AstoriaInterface
AstoriaPcs == AfterAux \cup {"init_power", "init_aux"}

\* a press or a start event now: during a wait_start, or before one
Now == IF \E r \in Robots : robots[r].pc \in WaitPcs
       THEN "during" ELSE "before"

\* obtain_lock() that binds the port whoever has it
obtainLockSharingPort == Return(<<"socket">>)

\* obtain_lock(): bind fails when a socket is bound to the port
obtain_lock ==
    IF bound # {}
    THEN Raise("OSError",
               <<"Unable to obtain lock, ",
                 "Is another robot instance already running">>)
    ELSE Return(<<"socket">>)

\* Robot(no_powerboard=...), up to init_astoria_mqtt
Construct(r) ==
    /\ robots[r].pc = "none"
    /\ LET sock == obtain_lock
       IN  IF sock.kind = "OSError"
           THEN /\ robots' = [robots EXCEPT ![r] =
                                [NoRobotYet EXCEPT !.pc = "failed",
                                                   !.result = sock]]
                /\ UNCHANGED bound
           ELSE /\ \E no_powerboard \in BOOLEAN :
                     robots' = [robots EXCEPT ![r] =
                        [NoRobotYet EXCEPT
                            !.pc = "init_power",
                            !._lock = TRUE,
                            !._no_powerboard = no_powerboard,
                            !._metadata = NoMetadata,
                            !._start_pressed = "clear",
                            !.astoria_metadata = InitialMetadata]]
                /\ bound' = bound \cup {r}
    /\ UNCHANGED <<button, outputs, transport, discovery, calls, gpio, lights>>

\* _init_power_board that leaves the outputs as they are
InitPowerBoardOutputsOff(r) ==
    /\ robots[r].pc = "init_power"
    /\ IF robots[r]._no_powerboard
       THEN robots' = [robots EXCEPT ![r].pc = "init_aux"]
       ELSE \E found \in PowerBoardsFound :
              IF SingularPowerBoard(found).kind = "return"
              THEN robots' = [robots EXCEPT ![r].pc = "init_aux",
                                            ![r].found = found,
                                            ![r]._power_board = TRUE]
              ELSE robots' = [robots EXCEPT
                                ![r].pc = "failed",
                                ![r].found = found,
                                ![r].result = SingularPowerBoard(found)]
    /\ UNCHANGED <<bound, button, outputs, transport, discovery, calls,
                   gpio, lights>>

\* _init_power_board(): nothing with no_powerboard; otherwise the one power
\* board found is kept and its outputs are switched on, and RuntimeError is
\* raised when not exactly one is found
InitPowerBoard(r) ==
    /\ robots[r].pc = "init_power"
    /\ IF robots[r]._no_powerboard
       THEN /\ robots' = [robots EXCEPT ![r].pc = "init_aux"]
            /\ UNCHANGED outputs
       ELSE \E found \in PowerBoardsFound :
              IF SingularPowerBoard(found).kind = "return"
              THEN /\ robots' = [robots EXCEPT ![r].pc = "init_aux",
                                               ![r].found = found,
                                               ![r]._power_board = TRUE]
                   /\ outputs' = PowerOutputs
              ELSE /\ robots' = [robots EXCEPT
                                   ![r].pc = "failed",
                                   ![r].found = found,
                                   ![r].result = SingularPowerBoard(found)]
                   /\ UNCHANGED outputs
    /\ UNCHANGED <<bound, button, transport, discovery, calls, gpio, lights>>

\* _init_aux_boards(), the camera and the log, and the end of the
\* constructor: it returns, or goes on with wait_start
InitAuxBoards(r) ==
    /\ robots[r].pc = "init_aux"
    /\ \E wait_for_start \in BOOLEAN :
         robots' = [robots EXCEPT
                      ![r].pc = IF wait_for_start THEN "ws_button"
                                ELSE "ready",
                      ![r].constructed = ~wait_for_start]
    /\ UNCHANGED <<bound, button, outputs, transport, discovery, calls,
                   gpio, lights>>

\* wait_start() is called on a constructed Robot
WaitStart(r) ==
    /\ robots[r].pc = "ready"
    /\ robots' = [robots EXCEPT ![r].pc = "ws_button",
                                ![r].cause = "clear",
                                ![r].discarded = FALSE,
                                ![r].result = NoResult]
    /\ UNCHANGED <<bound, button, outputs, transport, discovery, calls,
                   gpio, lights>>

\* wait_start that does not read the button before it waits
DiscardNoButton(r) ==
    /\ robots[r].pc = "ws_button"
    /\ robots' = [robots EXCEPT ![r].pc = "ws_isset",
                                ![r].result = NoResult]
    /\ UNCHANGED <<bound, button, outputs, transport, discovery, calls,
                   gpio, lights>>

\* _ = start_button_pressed(): the read of the button of the power board
\* clears its latch; with no_powerboard nothing is read
DiscardButton(r) ==
    /\ robots[r].pc = "ws_button"
    /\ IF robots[r]._no_powerboard
       THEN /\ robots' = [robots EXCEPT ![r].pc = "ws_isset",
                                        ![r].result = NoResult]
            /\ UNCHANGED button
       ELSE /\ robots' = [robots EXCEPT
                            ![r].pc = "ws_isset",
                            ![r].discarded = (button # "clear"),
                            ![r].result = NoResult]
            /\ button' = "clear"
    /\ UNCHANGED <<bound, outputs, transport, discovery, calls, gpio, lights>>

\* _ = remote_start_pressed(), first line of get_start_button_pressed
DiscardRemoteIsSet(r) ==
    /\ robots[r].pc = "ws_isset"
    /\ robots' = [robots EXCEPT
                    ![r].pc = "ws_clear",
                    ![r].pressed = (robots[r]._start_pressed # "clear"),
                    ![r].result = NoResult]
    /\ UNCHANGED <<bound, button, outputs, transport, discovery, calls,
                   gpio, lights>>

\* the clear() and the return of that call, and the buzz and the flashing
\* LEDs before the loop
DiscardRemoteClear(r) ==
    /\ robots[r].pc = "ws_clear"
    /\ robots' = [robots EXCEPT
                    ![r].pc = "loop_button",
                    ![r]._start_pressed = "clear",
                    ![r].discarded = robots[r].discarded \/ robots[r].pressed,
                    ![r].pressed = FALSE,
                    ![r].result = NoResult]
    /\ UNCHANGED <<bound, button, outputs, transport, discovery, calls,
                   gpio, lights>>

\* while not start_button_pressed() or ...: the left operand.  When the
\* button was not pressed the condition is true without a look at the
\* right operand, and the body of the loop is next.
LoopButton(r) ==
    /\ robots[r].pc = "loop_button"
    /\ IF robots[r]._no_powerboard \/ button = "clear"
       THEN /\ robots' = [robots EXCEPT ![r].pc = "loop_sleep",
                                        ![r].result = NoResult]
            /\ UNCHANGED button
       ELSE /\ robots' = [robots EXCEPT ![r].pc = "loop_isset",
                                        ![r].cause = button,
                                        ![r].result = NoResult]
            /\ button' = "clear"
    /\ UNCHANGED <<bound, outputs, transport, discovery, calls, gpio, lights>>

\* ... or remote_start_pressed(): the right operand, first line of
\* get_start_button_pressed
LoopRemoteIsSet(r) ==
    /\ robots[r].pc = "loop_isset"
    /\ robots' = [robots EXCEPT
                    ![r].pc = "loop_clear",
                    ![r].pressed = (robots[r]._start_pressed # "clear"),
                    ![r].result = NoResult]
    /\ UNCHANGED <<bound, button, outputs, transport, discovery, calls,
                   gpio, lights>>

\* the clear() and the return of that call: when it returns True the
\* condition of the loop is true, and the body of the loop is next
LoopRemoteClear(r) ==
    /\ robots[r].pc = "loop_clear"
    /\ robots' = [robots EXCEPT
                    ![r].pc = IF robots[r].pressed THEN "loop_sleep"
                              ELSE "load",
                    ![r].cause = IF robots[r].pressed THEN "clear"
                                 ELSE robots[r].cause,
                    ![r]._start_pressed = "clear",
                    ![r].pressed = FALSE,
                    ![r].result = NoResult]
    /\ UNCHANGED <<bound, button, outputs, transport, discovery, calls,
                   gpio, lights>>

\* self.sleep(0.1), and the loop begins again
LoopSleep(r) ==
    /\ robots[r].pc = "loop_sleep"
    /\ robots' = [robots EXCEPT ![r].pc = "loop_button",
                                ![r].result = NoResult]
    /\ UNCHANGED <<bound, button, outputs, transport, discovery, calls,
                   gpio, lights>>

\* the end of wait_start: the LEDs, and the metadata fetched from astoria
LoadMetadata(r) ==
    /\ robots[r].pc = "load"
    /\ robots' = [robots EXCEPT
                    ![r].pc = "ready",
                    ![r]._metadata = robots[r].astoria_metadata,
                    ![r].loaded = robots[r].astoria_metadata,
                    ![r].constructed = TRUE,
                    ![r].result = NoResult]
    /\ UNCHANGED <<bound, button, outputs, transport, discovery, calls,
                   gpio, lights>>

\* the steps of the thread that constructs the Robot and calls wait_start
WaitStep(r) ==
    \/ DiscardButton(r)
    \/ DiscardRemoteIsSet(r)
    \/ DiscardRemoteClear(r)
    \/ LoopButton(r)
    \/ LoopRemoteIsSet(r)
    \/ LoopRemoteClear(r)
    \/ LoopSleep(r)
    \/ LoadMetadata(r)

\* the value of an attribute of the metadata as the caller of a property
\* sees it, written as text: the arena and the mode are text, the zone is a
\* number
Shown(metadata, attr) ==
    IF attr = "zone" THEN Str(metadata.zone) ELSE <<metadata[attr]>>

\* Robot.arena, Robot.zone, Robot.mode
MetadataProperty(r, attr) ==
    /\ robots[r].constructed
    /\ robots' = [robots EXCEPT ![r].result =
         IF robots[r]._metadata = NoMetadata
         THEN [kind |-> "MetadataNotReadyError", val |-> <<>>, attr |-> attr]
         ELSE [kind |-> "return", val |-> Shown(robots[r]._metadata, attr),
               attr |-> attr]]
    /\ UNCHANGED <<bound, button, outputs, transport, discovery, calls,
                   gpio, lights>>

Arena(r) == MetadataProperty(r, "arena")
Zone(r) == MetadataProperty(r, "zone")
Mode(r) == MetadataProperty(r, "mode")

\* Robot.power_board
PowerBoardProperty(r) ==
    /\ robots[r].constructed
    /\ robots' = [robots EXCEPT ![r].result =
         IF robots[r]._no_powerboard
         THEN [kind |-> "RuntimeError",
               val |-> <<"No power board was initialized">>,
               attr |-> "power_board"]
         ELSE [kind |-> "return", val |-> <<"PowerBoard">>,
               attr |-> "power_board"]]
    /\ UNCHANGED <<bound, button, outputs, transport, discovery, calls,
                   gpio, lights>>

\* the start button of the power board is pressed: the board keeps the
\* press until the button is read
PressButton ==
    /\ button' = Now
    /\ UNCHANGED <<bound, robots, outputs, transport, discovery, calls,
                   gpio, lights>>

\* _process_remote_start(msg) on the MQTT thread: a message that parses
\* sets the event, one that does not is logged
ProcessRemoteStart(r) ==
    /\ robots[r].pc \in AstoriaPcs
    /\ \E parses \in BOOLEAN :
         IF parses
         THEN robots' = [robots EXCEPT ![r]._start_pressed = Now]
         ELSE UNCHANGED robots
    /\ UNCHANGED <<bound, button, outputs, transport, discovery, calls,
                   gpio, lights>>

\* the metadata update that also gives the metadata to the Robot
ProcessMetadataUpdateIntoRobot(r) ==
    /\ robots[r].pc \in AstoriaPcs
    /\ \E metadata \in Metadatas, running \in BOOLEAN :
         IF running
         THEN robots' = [robots EXCEPT ![r].astoria_metadata = metadata,
                                       ![r]._metadata = metadata]
         ELSE UNCHANGED robots
    /\ UNCHANGED <<bound, button, outputs, transport, discovery, calls,
                   gpio, lights>>

\* _process_metadata_update(msg) on the MQTT thread: the metadata of a
\* message of a running astmetad replaces that of the interface
ProcessMetadataUpdate(r) ==
    /\ robots[r].pc \in AstoriaPcs
    /\ \E metadata \in Metadatas, running \in BOOLEAN :
         IF running
         THEN robots' = [robots EXCEPT ![r].astoria_metadata = metadata]
         ELSE UNCHANGED robots
    /\ UNCHANGED <<bound, button, outputs, transport, discovery, calls,
                   gpio, lights>>

\* The process ends, or the Robot whose construction raised is freed: its
\* socket is closed.  Nothing in robot.py closes the socket before.
Exit(r) ==
    /\ robots[r].pc \notin {"none", "closed", "gone"}
    /\ robots' = [robots EXCEPT ![r] =
                    [NoRobotYet EXCEPT
                        !.pc = IF robots[r]._lock THEN "closed" ELSE "gone"]]
    /\ bound' = bound \ {r}
    /\ UNCHANGED <<button, outputs, transport, discovery, calls, gpio, lights>>

InitRobot ==
    /\ NoRobot
    /\ NoPins
    /\ NoLights
    /\ NoDiscovery
    /\ NoCall
    /\ board = "echo"
    /\ pending = <<>>
    /\ opened = {}
    /\ lock = NoThread
    /\ connected = FALSE
    /\ serial = None
    /\ th = [t \in Threads |-> IdleThread]
    /\ ncalls = 0
    /\ called = {}

NextRobot ==
    \/ \E r \in Robots :
         \/ Construct(r)
         \/ InitPowerBoard(r)
         \/ InitAuxBoards(r)
         \/ WaitStart(r)
         \/ WaitStep(r)
         \/ Arena(r)
         \/ Zone(r)
         \/ Mode(r)
         \/ PowerBoardProperty(r)
         \/ ProcessRemoteStart(r)
         \/ ProcessMetadataUpdate(r)
         \/ Exit(r)
    \/ PressButton

SpecRobot == InitRobot /\ [][NextRobot]_vars

\* the thread in wait_start goes on whenever it can
FairSpecRobot == SpecRobot /\ \A r \in Robots : WF_vars(WaitStep(r))

(***************************************************************************)
(* The pins of an Arduino (class Pin of src/sr/robot3/arduino.py), used by *)
(* one caller, outside the simulator (ENDLINE is empty).                   *)
(***************************************************************************)
\* operations on pins the caller makes at most
MaxPinOps == 2

\* the members of GPIOPinMode
GPIOPinModes == {"INPUT", "INPUT_PULLUP", "OUTPUT"}

\* the values a caller may assign to mode: the modes, and the number 1
ModeValues == GPIOPinModes \cup {"1"}

MODE_CHAR_MAP ==
    [INPUT |-> "i", INPUT_PULLUP |-> "p", OUTPUT |-> "o"]

DIGITAL_READ_MODES == {"INPUT", "INPUT_PULLUP", "OUTPUT"}
DIGITAL_WRITE_MODES == {"OUTPUT"}
ANALOG_READ_MODES == {"INPUT"}

\* the pins the caller uses: the two reserved pins, the first and the last
\* digital pin, and the first and the last analog pin
UsedPins == {0, 1, 2, FirstAnalogPin - 1, FirstAnalogPin, NumPins - 1}

\* the message of the IOError of a disabled pin
PinCannotBeControlled == <<"This pin cannot be controlled.">>
\* the messages of the other errors of IOError
NotAGPIOPinMode == <<"Pin mode only supports being set to a GPIOPinMode">>
UnsupportedMode(value) == <<"Pin mode ", value, " is not supported">>
NotSupportedIn(operation, mode) ==
    <<operation, " is not supported in ", mode>>
NoAnalogRead == <<"Pin does not support analog read">>

\* Pin._check_if_disabled(): the error it raises, NoResult when it returns
CheckIfDisabled(index) ==
    IF ArduinoPins[index]._disabled
    THEN Raise("IOError", PinCannotBeControlled)
    ELSE NoResult

\* Pin._map_pin_number()
MapPinNumber(index) == chr(index + ord("a"))

\* Pin._build_command(cmd_char)
BuildCommand(index, cmd_char) == <<cmd_char, MapPinNumber(index)>>

\* How self._serial.write(command) may end: the board accepts the command,
\* the board answers NACK with a message and the transport raises
\* RuntimeError with it, or the transaction fails in all its attempts and
\* the transport raises BoardDisconnectionError.
WriteOutcomes == {"ACK", "NACK", "failed"}

\* what write raises or returns for an outcome
SerialWrite(outcome) ==
    IF outcome = "ACK" THEN ReturnNone
    ELSE IF outcome = "NACK" THEN Raise("RuntimeError", <<"bad value">>)
    ELSE Raise("BoardDisconnectionError", BoardDisconnected)

\* How self._serial.query(command) may end for the two reads: with the
\* response of the board, or "failed" as for write
DigitalResponses == {"h", "l"}
AnalogResponses == {"0", "1000"}

\* int(response) of the responses to an analog read
IntOf(response) == IF response = "1000" THEN 1000 ELSE 0

\* map_to_float(reading, 0, 1023, 0.0, 5.0), in volts with three decimals:
\* written here as the millivolts
MapToFloat(reading) == Str((reading * 10000 + 1023) \div 2046)

\* str(value) of a bool
StrBool(value) == IF value THEN "True" ELSE "False"

\* an operation on a pin with its result
PinOp(op, index, value, result) ==
    [op |-> op, pin |-> index, value |-> value, result |-> result]

\* a command given to the transport, with how the transaction ended
Request(command, outcome) == [command |-> command, outcome |-> outcome]

\* pin.mode: the cached mode
ModeGet(index) ==
    /\ npinops < MaxPinOps
    /\ npinops' = npinops + 1
    /\ pinop' = PinOp("mode.get", index, "",
                      IF CheckIfDisabled(index) # NoResult
                      THEN CheckIfDisabled(index)
                      ELSE Return(<<_mode[index]>>))
    /\ UNCHANGED <<_mode, requests, transport, discovery, calls, robot,
                   lights>>

\* pin.mode = value that caches the mode before it sends the command
ModeSetCachingFirst(index, value, outcome) ==
    /\ npinops < MaxPinOps
    /\ npinops' = npinops + 1
    /\ IF CheckIfDisabled(index) # NoResult
       THEN /\ pinop' = PinOp("mode.set", index, value,
                              CheckIfDisabled(index))
            /\ UNCHANGED <<_mode, requests>>
       ELSE IF value \notin GPIOPinModes
       THEN /\ pinop' = PinOp("mode.set", index, value,
                              Raise("IOError", NotAGPIOPinMode))
            /\ UNCHANGED <<_mode, requests>>
       ELSE IF value \notin DOMAIN MODE_CHAR_MAP
       THEN /\ pinop' = PinOp("mode.set", index, value,
                              Raise("IOError", UnsupportedMode(value)))
            /\ UNCHANGED <<_mode, requests>>
       ELSE /\ _mode' = [_mode EXCEPT ![index] = value]
            /\ requests' = Append(requests,
                 Request(BuildCommand(index, MODE_CHAR_MAP[value]), outcome))
            /\ pinop' = PinOp("mode.set", index, value, SerialWrite(outcome))
    /\ UNCHANGED <<transport, discovery, calls, robot, lights>>

\* pin.mode = value: the command is sent, and the mode is cached when write
\* has returned
ModeSet(index, value, outcome) ==
    /\ npinops < MaxPinOps
    /\ npinops' = npinops + 1
    /\ IF CheckIfDisabled(index) # NoResult
       THEN /\ pinop' = PinOp("mode.set", index, value,
                              CheckIfDisabled(index))
            /\ UNCHANGED <<_mode, requests>>
       ELSE IF value \notin GPIOPinModes
       THEN /\ pinop' = PinOp("mode.set", index, value,
                              Raise("IOError", NotAGPIOPinMode))
            /\ UNCHANGED <<_mode, requests>>
       ELSE IF value \notin DOMAIN MODE_CHAR_MAP
       THEN /\ pinop' = PinOp("mode.set", index, value,
                              Raise("IOError", UnsupportedMode(value)))
            /\ UNCHANGED <<_mode, requests>>
       ELSE /\ requests' = Append(requests,
                 Request(BuildCommand(index, MODE_CHAR_MAP[value]), outcome))
            /\ pinop' = PinOp("mode.set", index, value, SerialWrite(outcome))
            /\ _mode' = IF SerialWrite(outcome) = ReturnNone
                        THEN [_mode EXCEPT ![index] = value]
                        ELSE _mode
    /\ UNCHANGED <<transport, discovery, calls, robot, lights>>

\* pin.digital_read()
DigitalRead(index, outcome) ==
    /\ npinops < MaxPinOps
    /\ npinops' = npinops + 1
    /\ IF CheckIfDisabled(index) # NoResult
       THEN /\ pinop' = PinOp("digital_read", index, "",
                              CheckIfDisabled(index))
            /\ UNCHANGED requests
       ELSE IF _mode[index] \notin DIGITAL_READ_MODES
       THEN /\ pinop' = PinOp("digital_read", index, "",
                 Raise("IOError", NotSupportedIn("Digital read",
                                                 _mode[index])))
            /\ UNCHANGED requests
       ELSE /\ requests' = Append(requests,
                              Request(BuildCommand(index, "r"), outcome))
            /\ pinop' = PinOp("digital_read", index, "",
                 IF outcome = "failed"
                 THEN Raise("BoardDisconnectionError", BoardDisconnected)
                 ELSE Return(<<StrBool(outcome = "h")>>))
    /\ UNCHANGED <<_mode, transport, discovery, calls, robot, lights>>

\* pin.digital_write(value) that does not look at the mode
DigitalWriteInAnyMode(index, value, outcome) ==
    /\ npinops < MaxPinOps
    /\ npinops' = npinops + 1
    /\ IF CheckIfDisabled(index) # NoResult
       THEN /\ pinop' = PinOp("digital_write", index, StrBool(value),
                              CheckIfDisabled(index))
            /\ UNCHANGED requests
       ELSE /\ requests' = Append(requests,
                 Request(BuildCommand(index, IF value THEN "h" ELSE "l"),
                         outcome))
            /\ pinop' = PinOp("digital_write", index, StrBool(value),
                              SerialWrite(outcome))
    /\ UNCHANGED <<_mode, transport, discovery, calls, robot, lights>>

\* pin.digital_write(value)
DigitalWrite(index, value, outcome) ==
    /\ npinops < MaxPinOps
    /\ npinops' = npinops + 1
    /\ IF CheckIfDisabled(index) # NoResult
       THEN /\ pinop' = PinOp("digital_write", index, StrBool(value),
                              CheckIfDisabled(index))
            /\ UNCHANGED requests
       ELSE IF _mode[index] \notin DIGITAL_WRITE_MODES
       THEN /\ pinop' = PinOp("digital_write", index, StrBool(value),
                 Raise("IOError", NotSupportedIn("Digital write",
                                                 _mode[index])))
            /\ UNCHANGED requests
       ELSE /\ requests' = Append(requests,
                 Request(BuildCommand(index, IF value THEN "h" ELSE "l"),
                         outcome))
            /\ pinop' = PinOp("digital_write", index, StrBool(value),
                              SerialWrite(outcome))
    /\ UNCHANGED <<_mode, transport, discovery, calls, robot, lights>>

\* pin.analog_read()
AnalogRead(index, outcome) ==
    /\ npinops < MaxPinOps
    /\ npinops' = npinops + 1
    /\ IF CheckIfDisabled(index) # NoResult
       THEN /\ pinop' = PinOp("analog_read", index, "",
                              CheckIfDisabled(index))
            /\ UNCHANGED requests
       ELSE IF _mode[index] \notin ANALOG_READ_MODES
       THEN /\ pinop' = PinOp("analog_read", index, "",
                 Raise("IOError", NotSupportedIn("Analog read",
                                                 _mode[index])))
            /\ UNCHANGED requests
       ELSE IF ~ArduinoPins[index]._supports_analog
       THEN /\ pinop' = PinOp("analog_read", index, "",
                              Raise("IOError", NoAnalogRead))
            /\ UNCHANGED requests
       ELSE /\ requests' = Append(requests,
                              Request(BuildCommand(index, "a"), outcome))
            /\ pinop' = PinOp("analog_read", index, "",
                 IF outcome = "failed"
                 THEN Raise("BoardDisconnectionError", BoardDisconnected)
                 ELSE Return(MapToFloat(IntOf(outcome))))
    /\ UNCHANGED <<_mode, transport, discovery, calls, robot, lights>>

\* An Arduino has been constructed: every pin caches INPUT, and no command
\* of a pin was sent.  The wrapper of the first part takes no part.
InitPins ==
    /\ _mode = [index \in PinIndexes |-> ArduinoPins[index]._mode]
    /\ requests = <<>>
    /\ pinop = NoPinOp
    /\ npinops = 0
    /\ NoLights
    /\ NoDiscovery
    /\ NoCall
    /\ NoRobot
    /\ board = "echo"
    /\ pending = <<>>
    /\ opened = {}
    /\ lock = NoThread
    /\ connected = FALSE
    /\ serial = None
    /\ th = [t \in Threads |-> IdleThread]
    /\ ncalls = 0
    /\ called = {}

NextPins ==
    \E index \in UsedPins :
        \/ ModeGet(index)
        \/ \E value \in ModeValues, outcome \in WriteOutcomes :
             ModeSet(index, value, outcome)
        \/ \E outcome \in DigitalResponses \cup {"failed"} :
             DigitalRead(index, outcome)
        \/ \E value \in BOOLEAN, outcome \in WriteOutcomes :
             DigitalWrite(index, value, outcome)
        \/ \E outcome \in AnalogResponses \cup {"failed"} :
             AnalogRead(index, outcome)

SpecPins == InitPins /\ [][NextPins]_vars

(***************************************************************************)
(* The user LEDs in the simulator (SimulationLED and LedServer of          *)
(* src/sr/robot3/kch.py): the threads of the robot's code set the colour   *)
(* segments of the LEDs that the LED board of the simulator holds.         *)
(***************************************************************************)
\* calls of segment setters the threads make at most, all together
MaxSets == 2

\* len(RobotLEDs.user_leds()): the LEDs A, B and C
NumUserLeds == 3
\* the numbers of the LEDs: range(len(RobotLEDs.user_leds()))
LedNums == 0..(NumUserLeds - 1)

\* the position of a segment in the tuple (red, green, blue), from 1
SegmentPosition == [r |-> 1, g |-> 2, b |-> 3]
Segments == DOMAIN SegmentPosition

\* f'{value:d}' of a bool
FormatBool(value) == IF value THEN "1" ELSE "0"

\* bool(int(text))
BoolOfInt(text) == text # <<"0">>

\* the line set_leds writes: f'LED:{led_num}:SET:{r:d}:{g:d}:{b:d}'
SetCommand(led_num, value) ==
    <<"L", "E", "D", ":">> \o Str(led_num) \o <<":", "S", "E", "T", ":",
      FormatBool(value[1]), ":", FormatBool(value[2]), ":",
      FormatBool(value[3])>>

\* what the LED board holds for a LED after a SET line: the three fields
\* after SET, joined as it answers them to a GET? query
Held(command) ==
    LET fields == Split(command)
    IN  fields[4] \o <<":">> \o fields[5] \o <<":">> \o fields[6]

\* LedServer.get_leds(led_num) when the board answers response
get_leds(response) ==
    LET fields == Split(response)
    IN  <<BoolOfInt(fields[1]), BoolOfInt(fields[2]), BoolOfInt(fields[3])>>

\* the tuple a setter of a segment gives to set_leds: value in the place of
\* the segment, current in the two others
WithSegment(current, segment, value) ==
    [current EXCEPT ![SegmentPosition[segment]] = value]

\* the frame of a thread that is in no setter
IdleSetter ==
    [ pc      |-> "idle",    \* where the thread is
      led     |-> 0,         \* self._led_num
      segment |-> "r",       \* the setter called
      value   |-> FALSE,     \* its argument
      current |-> <<FALSE, FALSE, FALSE>> ]  \* what get_leds returned

\* led.r = value, led.g = value or led.b = value, first line:
\* current = self._server.get_leds(self._led_num)
SetterFetch(t, led_num, segment, value) ==
    /\ setters[t].pc = "idle"
    /\ nsets < MaxSets
    /\ nsets' = nsets + 1
    /\ setters' = [setters EXCEPT ![t] =
                     [ pc      |-> "fetched",
                       led     |-> led_num,
                       segment |-> segment,
                       value   |-> value,
                       current |-> get_leds(leds[led_num]) ]]
    /\ UNCHANGED <<leds, transport, discovery, calls, robot, gpio>>

\* second line: self._server.set_leds(self._led_num, (...)), and the
\* setter returns
SetterStore(t) ==
    /\ setters[t].pc = "fetched"
    /\ leds' = [leds EXCEPT ![setters[t].led] =
                  Held(SetCommand(setters[t].led,
                                  WithSegment(setters[t].current,
                                              setters[t].segment,
                                              setters[t].value)))]
    /\ setters' = [setters EXCEPT ![t] = IdleSetter]
    /\ UNCHANGED <<nsets, transport, discovery, calls, robot, gpio>>

\* The LED server is connected and every LED is off.  The transactions
\* with the LED board are taken to succeed; the wrapper of the first part
\* takes no part.
InitLeds ==
    /\ leds = [n \in LedNums |-> <<"0", ":", "0", ":", "0">>]
    /\ setters = [t \in Threads |-> IdleSetter]
    /\ nsets = 0
    /\ NoPins
    /\ NoDiscovery
    /\ NoCall
    /\ NoRobot
    /\ board = "echo"
    /\ pending = <<>>
    /\ opened = {}
    /\ lock = NoThread
    /\ connected = FALSE
    /\ serial = None
    /\ th = [t \in Threads |-> IdleThread]
    /\ ncalls = 0
    /\ called = {}

NextLeds ==
    \E t \in Threads :
        \/ \E led_num \in LedNums, segment \in Segments, value \in BOOLEAN :
             SetterFetch(t, led_num, segment, value)
        \/ SetterStore(t)

SpecLeds == InitLeds /\ [][NextLeds]_vars

(***************************************************************************)
(* The claims.                                                             *)
(***************************************************************************)
InCall(t) == th[t].pc # "idle"

\* thread t has written its command and has not finished its read
InTransaction(t) == th[t].pc = "q_read"

\* the str s begins with the str p
BeginsWith(s, p) == Len(s) >= Len(p) /\ SubSeq(s, 1, Len(p)) = p

\* the response query made of the line thread t read
ResponseOf(t) == Strip(Decode(th[t].resp))

\* the board's rejection 'NACK:bad value' and its message
NackLine ==
    Encode(<<"N","A","C","K",":","b","a","d"," ","v","a","l","u","e","\n">>)
BadValue == <<"b","a","d"," ","v","a","l","u","e">>

\* C1: among the threads that use one wrapper, at most one at a time is
\* between the write of its command and the end of its read, and that one
\* holds the wrapper's lock.
C1_OneTransactionAtATime ==
    \A t \in Threads :
        InTransaction(t) =>
            /\ lock = t
            /\ \A u \in Threads : InTransaction(u) => u = t

\* a thread is in its transaction while another one, calling query too,
\* waits for the lock
C1_Witness ==
    \E t, u \in Threads :
        /\ t # u
        /\ InTransaction(t)
        /\ th[u].op = "query" /\ th[u].pc = "q_lock"

\* C2: one query call makes at most 3 attempts of the write+read cycle, so
\* it never writes its command a fourth time.
C2_AtMostThreeAttempts ==
    \A t \in Threads : th[t].op = "query" => th[t].nw <= 3

\* C3: every call of query or write terminates: a thread that is in a call
\* is eventually in no call.
C3_EveryCallTerminates ==
    \A t \in Threads : InCall(t) ~> ~InCall(t)

\* C4: a write call ends, and it ends raising the message after the colon
\* when the response it got begins with 'NACK:' and returning None when it
\* got any other response.
C4_WriteAnswersByResponse ==
    \A t \in Threads :
        (InCall(t) /\ th[t].op = "write") ~>
            /\ ~InCall(t)
            /\ th[t].op = "write"
            /\ th[t].resp # <<>> =>
                IF BeginsWith(ResponseOf(t), NACK \o <<":">>)
                THEN th[t].result =
                        Raise("RuntimeError",
                              SubSeq(ResponseOf(t), 6, Len(ResponseOf(t))))
                ELSE th[t].result = ReturnNone

\* C5: an open that fails during query ends the call at once with
\* 'Board not connected': query does not go on to another attempt.
C5_OpenFailureIsFatal ==
    [][\A t \in Threads :
          (/\ th[t].op = "query"
           /\ th[t].pc = "c_open"
           /\ th'[t].pc \notin {"c_open", "c_flag"})
          => /\ th'[t].pc = "idle"
             /\ th'[t].result = Raise("RuntimeError", BoardNotConnected)]_vars

\* C6: a write call never writes its command twice, and a write call ends;
\* when the line it read is the rejection 'NACK:bad value' it ends raising
\* 'bad value'.
C6_NackNotRetried ==
    /\ [](\A t \in Threads : th[t].op = "write" => th[t].nw <= 1)
    /\ \A t \in Threads :
        (InCall(t) /\ th[t].op = "write") ~>
            /\ ~InCall(t)
            /\ th[t].op = "write"
            /\ th[t].resp = NackLine =>
                th[t].result = Raise("RuntimeError", BadValue)

\* C7: between the write and the read of a query the wrapper stays as the
\* query left it: connected, and its handle the open handle the command was
\* written to.
C7_TransactionUndisturbed ==
    \A t \in Threads :
        InTransaction(t) =>
            /\ connected
            /\ serial = th[t].hw
            /\ th[t].hw \in opened

\* C8: when the board echoes and the threads call nothing but query, every
\* call writes its command once, in its first attempt, is answered before
\* another command is written, and returns the echo of its own command; no
\* command stays unanswered.
C8_EchoToEachCaller ==
    (board = "echo" /\ called \subseteq {"query"}) =>
        /\ Len(pending) <= 1
        /\ (\A t \in Threads : ~InCall(t)) => pending = <<>>
        /\ \A t \in Threads :
            /\ InCall(t) => th[t].attempt = 0 /\ th[t].nw <= 1
            /\ (~InCall(t) /\ th[t].op = "query") =>
                /\ th[t].resp = CommandLine(CommandOf(t))
                /\ th[t].result = Return(CommandOf(t))

\* every thread has called query on an echoing board, at least two of them,
\* and has its own command back
C8_Witness ==
    /\ board = "echo"
    /\ called = {"query"}
    /\ ncalls >= 2
    /\ \A t \in Threads :
        /\ ~InCall(t)
        /\ th[t].op = "query"
        /\ th[t].result = Return(CommandOf(t))

\* C9: a query call whose third attempt reads a terminated line returns
\* that line's response, and when an attempt has failed in its transaction
\* the handle it wrote to is closed before the next attempt.
C9_RetryRecovers ==
    \A t \in Threads :
        /\ (~InCall(t) /\ th[t].op = "query" /\ th[t].resp # <<>>) =>
            th[t].result = Return(ResponseOf(t))
        /\ (th[t].op = "query" /\ th[t].pc = "q_lock" /\ th[t].hw # None) =>
            th[t].hw \notin opened

\* C10: when an attempt of query that failed in its transaction ends, the
\* wrapper is disconnected, the handle of the transaction is closed and the
\* stored handle is cleared.
C10_FailedTransactionCloses ==
    [][\A t \in Threads :
          (/\ th[t].op = "query"
           /\ th[t].pc \in {"d_check", "d_close", "d_clear"}
           /\ th'[t].pc \in {"q_lock", "idle"})
          => /\ ~connected'
             /\ serial' = None
             /\ th[t].hw \notin opened']_vars

\* C11: every line the board has received is a command followed by the
\* terminator '\n' and nothing else, and a query call that returns gives back
\* the line it read with its trailing whitespace stripped.
C11_SendsCommandReturnsLine ==
    /\ \A i \in 1..Len(pending) :
          \E t \in Threads :
              pending[i] = Encode(CommandOf(t)) \o <<Ascii["\n"]>>
    /\ \A t \in Threads :
          (~InCall(t) /\ th[t].op = "query" /\ th[t].result.kind = "return")
              => th[t].result.val = RStrip(Decode(th[t].resp))

\* C12: query opens the port, holding the lock, whenever it finds the wrapper
\* disconnected, comes to its write only from a connected wrapper or from an
\* open that succeeded, and completes a write or a read only while the
\* wrapper is connected.
C12_NoTransferWhileDisconnected ==
    [][\A t \in Threads :
          th[t].op = "query" =>
              /\ (th[t].pc = "q_lock" /\ th'[t].pc # "q_lock") =>
                    /\ lock' = t
                    /\ th'[t].pc = IF connected THEN "q_write" ELSE "c_open"
              /\ (th[t].pc # "q_write" /\ th'[t].pc = "q_write") =>
                    \/ th[t].pc = "q_lock" /\ connected
                    \/ th[t].pc = "c_flag" /\ connected' /\ serial \in opened
              /\ (th[t].pc = "q_write" /\ th'[t].pc = "q_read") => connected
              /\ (/\ th[t].pc = "q_read"
                  /\ th'[t].pc = "idle"
                  /\ th'[t].result.kind = "return") => connected]_vars

\* C13: an open that fails on a disconnected wrapper leaves it disconnected,
\* with no handle stored and no handle opened, and _connect is over with that
\* one attempt: start returns, query's attempt raises 'Board not connected'.
C13_FailedOpenStaysDisconnected ==
    [][\A t \in Threads :
          (/\ th[t].pc = "c_open"
           /\ th'[t].pc \notin {"c_open", "c_flag"}
           /\ ~connected
           /\ serial = None)
          => /\ ~connected'
             /\ serial' = None
             /\ opened' = opened
             /\ IF th[t].op = "start"
                THEN th'[t].pc = "idle" /\ th'[t].result = ReturnNone
                ELSE \/ /\ th'[t].pc = "idle"
                        /\ th'[t].result =
                              Raise("RuntimeError", BoardNotConnected)
                     \/ /\ th'[t].pc = "q_lock"
                        /\ th'[t].attempt = th[t].attempt + 1]_vars

\* nothing but start has been called, a start call is over, and the wrapper
\* is disconnected with no handle: the open of that call failed
C13_Witness ==
    /\ called = {"start"}
    /\ \E t \in Threads : ~InCall(t) /\ th[t].op = "start"
    /\ \A t \in Threads : ~InCall(t)
    /\ ~connected
    /\ serial = None
    /\ opened = {}

\* C14: with one caller at a time, stop on a disconnected wrapper returns at
\* once, raising nothing and changing nothing; stop on a connected wrapper
\* goes on to close the stored handle; and every stop call returns None and
\* leaves the wrapper disconnected with no handle stored.
C14_StopIdempotent ==
    [][\A t \in Threads :
          th[t].op = "stop" =>
              /\ (th[t].pc = "d_check" /\ ~connected /\ serial = None) =>
                    /\ th'[t].pc = "idle"
                    /\ th'[t].result = ReturnNone
                    /\ UNCHANGED <<connected, serial, opened>>
              /\ (th[t].pc = "d_check" /\ connected) =>
                    /\ serial \in opened
                    /\ th'[t].pc = "d_flag"
              /\ (th[t].pc # "idle" /\ th'[t].pc = "idle") =>
                    /\ th'[t].result = ReturnNone
                    /\ ~connected'
                    /\ serial' = None
                    /\ serial \notin opened']_vars

\* stop has been called twice in a row and nothing else
C14_Witness ==
    /\ called = {"stop"}
    /\ ncalls >= 2
    /\ \A t \in Threads : ~InCall(t)
    /\ \E t \in Threads : th[t].op = "stop" /\ th[t].result = ReturnNone

\* the ports of serial_ports whose (vid, pid) is supported
Matching ==
    {i \in 1..Len(serial_ports) :
        <<serial_ports[i].vid, serial_ports[i].pid>> \in SUPPORTED_VID_PIDS}

\* the ports of serial_ports whose serial number is ignored
Ignored ==
    {i \in 1..Len(serial_ports) :
        serial_ports[i].serial_number \in ignored_serials}

\* the candidates of a discovery: the supported ports that are not ignored,
\* and the entries of manual_boards
Candidates ==
    {<<"usb", i>> : i \in Matching \ Ignored} \cup
    {<<"manual", j>> : j \in 1..Len(manual_boards)}

\* the candidates the discovery has passed
Passed ==
    {c \in Candidates :
        \/ at = "returned"
        \/ at = "manual" /\ (c[1] = "usb" \/ c[2] < idx)
        \/ at = "ports" /\ c[1] = "usb" /\ c[2] < idx}

\* the candidates whose board is in the result
InResult == {boards[k].cand : k \in DOMAIN boards}

\* C15: an Arduino is constructed for an enumerated port, and its port
\* opened, only when the port's (vid, pid) is supported; no other port is in
\* the result; and when comports() lists one supported port, whose board
\* identifies, and one unsupported port, and no port is given manually, the
\* result has one entry, under the supported port's serial number.
C15_OnlySupportedPortsProbed ==
    /\ \A c \in built \cup held \cup InResult :
          c[1] = "usb" => c[2] \in Matching
    /\ \A i \in 1..Len(serial_ports) :
          (/\ at = "returned"
           /\ Len(serial_ports) = 2
           /\ Matching = {i}
           /\ manual_boards = <<>>
           /\ <<"usb", i>> \in valid)
          => DOMAIN boards = {serial_ports[i].serial_number}

\* the discovery of a supported port and an unsupported one has returned one
\* board, without having constructed anything for the unsupported port
C15_Witness ==
    /\ at = "returned"
    /\ Len(serial_ports) = 2
    /\ Cardinality(Matching) = 1
    /\ manual_boards = <<>>
    /\ built = {<<"usb", i>> : i \in Matching}
    /\ valid = built
    /\ Cardinality(DOMAIN boards) = 1

\* C16: whatever the construction of a candidate raises, the scan goes on:
\* every candidate the discovery has passed has been constructed, a
\* candidate whose construction failed is not in the result, and the
\* discovery can always go on until it has returned.
C16_BadCandidateDoesNotAbort ==
    /\ built = Passed
    /\ InResult \subseteq valid
    /\ at \in {"ports", "manual"} => ENABLED NextDiscovery

\* the discovery has returned with a board of a candidate that came after a
\* candidate whose construction failed
C16_Witness ==
    /\ at = "returned"
    /\ \E c \in built \ valid, d \in InResult :
          \/ c[1] = "usb" /\ d[1] = "manual"
          \/ c[1] = d[1] /\ c[2] < d[2]

\* C17: no board of a validated candidate is overwritten in the result:
\* every candidate whose construction succeeded has its board in boards.
C17_NoLastWriteWins == valid \subseteq InResult

\* C18: when the discovery has returned, the candidates whose transport has
\* its port open are those whose board is in the result.
C18_RejectedLeavesNoHandle == at = "returned" => held = InResult

\* C19: a manually given port path whose construction succeeded is a key of
\* the result, and the board under it is a board made for that path, with
\* that path as the asset tag of its identity.
C19_ManualKeyedByPath ==
    \A j \in 1..Len(manual_boards) :
        <<"manual", j>> \in valid =>
            /\ manual_boards[j] \in DOMAIN boards
            /\ boards[manual_boards[j]].port = manual_boards[j]
            /\ boards[manual_boards[j]].cand[1] = "manual"
            /\ boards[manual_boards[j]].identity.asset_tag = manual_boards[j]

\* the discovery has returned a board for a manually given path
C19_Witness ==
    /\ at = "returned"
    /\ \E j \in 1..Len(manual_boards) :
          /\ <<"manual", j>> \in valid
          /\ manual_boards[j] \in DOMAIN boards

\* C20: no Arduino is constructed for an enumerated port whose serial number
\* is in ignored_serials, whatever its (vid, pid): its port is not opened and
\* no board of it is in the result.
C20_IgnoredNeverConstructed ==
    \A i \in Ignored : <<"usb", i>> \notin built \cup held \cup InResult

\* the discovery has returned, having passed over a supported port whose
\* serial number is ignored and having constructed another candidate
C20_Witness ==
    /\ at = "returned"
    /\ Matching \cap Ignored # {}
    /\ built # {}

\* the map singular was called with
Container == arguments[1]

\* C21: singular called with a map of exactly one entry returns the value of
\* that entry, raises nothing and leaves the map as it was.
C21_SingularReturnsSoleValue ==
    /\ callee = "singular"
    /\ returned # NoResult
    /\ Cardinality(DOMAIN Container) = 1
    => \E k \in DOMAIN Container : returned = Return(Container[k])

\* C22: singular called with an empty map raises the error 'No boards of
\* this type found'; called with a map of N > 1 entries it raises an error
\* whose message has the number N in it, and returns no entry.
C22_MultiplicitySurfaced ==
    callee = "singular" /\ returned # NoResult
    => LET N == Cardinality(DOMAIN Container)
       IN  /\ N = 0 =>
                returned = Raise("RuntimeError",
                                 <<"No boards of this type found">>)
           /\ N > 1 =>
                /\ returned.kind = "RuntimeError"
                /\ Contains(returned.val, Str(N))

\* singular has raised for a map of two boards
C22_Witness ==
    /\ callee = "singular"
    /\ Cardinality(DOMAIN Container) = 2
    /\ returned.kind = "RuntimeError"

\* how the query of identify ended in the call of Arduino or of
\* _get_valid_board
Outcome == arguments[3]

\* the response has a colon
HasColon(response) == \E i \in 1..Len(response) : response[i] = ":"

\* the board type a response reports: the text before its first colon
TypeReported(response) ==
    LET i == CHOOSE c \in 1..Len(response) :
                 /\ response[c] = ":"
                 /\ \A j \in 1..(c - 1) : response[j] # ":"
    IN  SubSeq(response, 1, i - 1)

\* the board has answered the query with a board type that does not begin
\* with 'SR'
Mismatch ==
    /\ ~Outcome.raised
    /\ HasColon(Outcome.response)
    /\ ~BeginsWith(TypeReported(Outcome.response), <<"S", "R">>)

\* the warning of a board of the wrong type
MismatchWarning(returned_type) ==
    [ level   |-> "WARNING",
      message |-> <<"Board returned type ", "'">> \o returned_type
                  \o <<"'", ", expected ", "'", "S", "R", "*", "'",
                       ". Ignoring this device">> ]

C24_IdentityMerged ==
    callee = "Arduino" /\ returned # NoResult /\ returned.raised = "none"
    => LET identity == returned.identity
           reported == identity.board_type \o <<":">> \o identity.sw_version
           response == Outcome.response
       IN  /\ identity.asset_tag = arguments[2].asset_tag
           /\ ~HasColon(identity.board_type)
           /\ ~HasColon(identity.sw_version)
           /\ BeginsWith(response, reported)
           /\ Len(response) > Len(reported) =>
                  response[Len(reported) + 1] = ":"

\* an Arduino is constructed for the USB serial number TEST123 on a board
\* that answers 'SRduino:2.0'
C24_Witness ==
    /\ callee = "Arduino"
    /\ returned # NoResult
    /\ returned.raised = "none"
    /\ arguments[2].asset_tag = "TEST123"
    /\ arguments[2].board_type = "Arduino"
    /\ returned.identity.board_type = <<"S","R","d","u","i","n","o">>
    /\ returned.identity.sw_version = <<"2", ".", "0">>

\* the ports of a raw discovery whose serial number was requested
RequestedPorts ==
    { i \in DOMAIN arguments[2] :
        \E k \in DOMAIN arguments[1] :
            arguments[1][k][1] = arguments[2][i].serial_number }

\* the baud rates requested for a serial number
BaudsOf(sn) ==
    { arguments[1][k][2] :
        k \in { j \in DOMAIN arguments[1] : arguments[1][j][1] = sn } }

\* C25: raw serial discovery calls serial_for_url once for every enumerated
\* port whose serial number is in the requested list, in the order of the
\* ports and with a baud rate requested for that serial number, and for no
\* other port; the boards it returns are stored under their serial number,
\* and the serial numbers of the result are those of the requested ports
\* that could be opened: a port that cannot be opened is passed over and
\* the ports after it are still opened.
C25_RawDiscoveryOpensRequested ==
    callee = "RawSerial._get_supported_boards" /\ returned # NoResult
    => LET ports == arguments[2]
           failing == arguments[3]
           calls_ == returned.calls
       IN  /\ Len(calls_) = Cardinality(RequestedPorts)
           /\ \A i \in RequestedPorts :
                \E c \in 1..Len(calls_) :
                    /\ calls_[c].url = ports[i].device
                    /\ calls_[c].baudrate \in BaudsOf(ports[i].serial_number)
                    /\ c = Cardinality({j \in RequestedPorts : j <= i})
           /\ DOMAIN returned.boards =
                { ports[i].serial_number :
                    i \in { j \in RequestedPorts :
                              ports[j].device \notin failing } }
           /\ \A sn \in DOMAIN returned.boards :
                /\ returned.boards[sn].identity.asset_tag = sn
                /\ returned.boards[sn].baudrate \in BaudsOf(sn)
                /\ \E i \in RequestedPorts :
                    /\ ports[i].serial_number = sn
                    /\ ports[i].device = returned.boards[sn].port
                    /\ ports[i].device \notin failing

\* a discovery asked for TEST123 at 9600 baud has returned the board of the
\* second port, after the first port, also requested, could not be opened
C25_Witness ==
    /\ callee = "RawSerial._get_supported_boards"
    /\ returned # NoResult
    /\ arguments[1] = << <<"TEST123", 9600>> >>
    /\ Len(arguments[2]) = 2
    /\ arguments[2][1].serial_number = "TEST123"
    /\ arguments[3] = {"test://1"}
    /\ DOMAIN returned.boards = {"TEST123"}
    /\ returned.boards["TEST123"].port = "test://2"
    /\ returned.boards["TEST123"].baudrate = 9600
    /\ Len(returned.calls) = 2

\* the Robots that hold a lock socket
Holders == { r \in Robots : robots[r]._lock }

\* the Robots whose wait_start has returned, and has not been called again
Started(r) == robots[r].pc = "ready" /\ robots[r].loaded # NoMetadata

\* a start signal given to Robot r during its wait_start and not yet read:
\* a press of the button of its power board, or a remote start event
Signalled(r) ==
    \/ ~robots[r]._no_powerboard /\ button = "during"
    \/ robots[r]._start_pressed = "during"

\* the last thing done with Robot r was to read one of these properties
Accessed(r, attrs) ==
    /\ "attr" \in DOMAIN robots[r].result
    /\ robots[r].result.attr \in attrs

\* C26: a wait_start that has reached its loop returns once a start signal
\* is given during it, whether the signal is a press of the physical start
\* button or a remote start event, each alone being enough, also on a Robot
\* built with no_powerboard (or the process has ended meanwhile).
C26_StartSignalEndsWait ==
    \A r \in Robots :
        (robots[r].pc \in LoopPcs /\ Signalled(r))
        ~> (Started(r) \/ robots[r].pc = "closed")

\* C27: arena, zone and mode raise MetadataNotReadyError until a wait_start
\* has completed, and from then on return the values wait_start fetched;
\* nothing other than wait_start sets the metadata of the Robot.
C27_MetadataOnlyAfterStart ==
    \A r \in Robots :
        /\ robots[r]._metadata = robots[r].loaded
        /\ Accessed(r, {"arena", "zone", "mode"})
           => IF robots[r].loaded = NoMetadata
              THEN robots[r].result.kind = "MetadataNotReadyError"
              ELSE /\ robots[r].result.kind = "return"
                   /\ robots[r].result.val =
                        Shown(robots[r].loaded, robots[r].result.attr)

\* after wait_start, zone returns the zone that was fetched, 0, although the
\* metadata astoria has since sent is another
C27_Witness ==
    \E r \in Robots :
        /\ robots[r].loaded = InitialMetadata
        /\ robots[r].astoria_metadata # robots[r].loaded
        /\ robots[r].result = [kind |-> "return", val |-> <<"0">>,
                               attr |-> "zone"]

\* C28: at most one Robot holds the instance lock: a Robot that got past
\* obtain_lock holds it, a construction that met a holder raised OSError
\* and holds nothing, and the port is bound exactly while a holder has its
\* socket open.
C28_OneInstanceLock ==
    /\ Cardinality(Holders) <= 1
    /\ bound = Holders
    /\ \A r \in Robots :
         /\ robots[r].pc \in AstoriaPcs => r \in Holders
         /\ (robots[r].pc = "failed" /\ robots[r].result.kind = "OSError")
            => r \notin Holders

\* a Robot holds the lock, and the construction of another has raised OSError
C28_Witness ==
    \E r \in Robots, q \in Robots :
        /\ r \in Holders
        /\ robots[r].constructed
        /\ robots[q].pc = "failed"
        /\ robots[q].result.kind = "OSError"

\* C29: presses of the start button and remote start events from before a
\* wait_start are not there when its loop begins, and the signal that ends
\* the wait is one given during it.
C29_EarlierPressesIgnored ==
    \A r \in Robots :
        /\ robots[r].pc \in LoopPcs \cup {"load"}
           => /\ robots[r]._start_pressed # "before"
              /\ ~robots[r]._no_powerboard => button # "before"
        /\ (robots[r].pc = "load" \/ Started(r)) => robots[r].cause = "during"

\* a wait_start discarded an earlier press and has returned
C29_Witness ==
    \E r \in Robots :
        /\ Started(r)
        /\ robots[r].discarded
        /\ robots[r].cause = "during"

C34_AtMostOneOpenHandle == Cardinality(opened) <= 1

\* the calls of query, alone or inside write
InQuery(t) == th[t].op \in {"query", "write"} /\ th[t].pc # "idle"

\* C35 as it was claimed: a query call that has written in its current
\* attempt has written its command line as many times as it has made
\* attempts.
C35_WritesEqualAttempts ==
    \A t \in Threads :
        (InQuery(t) /\ th[t].pc = "q_read") => th[t].nw = th[t].attempt + 1

\* C35: each attempt of query writes the command line at most once, and
\* reads a line only after it has written; the lines one call has written
\* never exceed the attempts it has made.  An attempt that returns has
\* written once in that attempt and its readline has taken exactly one line,
\* the oldest answer of the board, so a call that returns on its first
\* attempt has written exactly one command line and read exactly one.
C35_OneWriteOneReadPerAttempt ==
    /\ [](\A t \in Threads :
            InQuery(t) =>
               /\ th[t].nw <= th[t].attempt + 1
               /\ th[t].pc \in {"q_lock", "c_open", "c_flag", "q_write"}
                     => th[t].nw <= th[t].attempt
               /\ th[t].pc = "q_read"
                     => th[t].nw >= 1 /\ th[t].hw # None
               /\ (th[t].pc = "q_read" /\ th[t].attempt = 0)
                     => th[t].nw = 1)
    /\ [][\A t \in Threads :
            (/\ th[t].pc = "q_read"
             /\ th'[t].pc = "idle"
             /\ th'[t].result.kind \in {"return", "returnNone"})
            => /\ HasNewline(th'[t].resp)
               /\ board = "echo"
                     => /\ pending # <<>>
                        /\ th'[t].resp = Head(pending)
                        /\ pending' = Tail(pending)]_vars

\* a query call is reading in its second attempt and has written once: its
\* first attempt failed before it wrote
C35_Witness ==
    \E t \in Threads :
        /\ th[t].op = "query"
        /\ th[t].pc = "q_read"
        /\ th[t].attempt = 1
        /\ th[t].nw = 1

\* C36: with one caller at a time, whenever no operation is in progress the
\* connected flag is true exactly when a handle is stored, and the stored
\* handle of a connected wrapper is open.
C36_ConnectedIffHandle ==
    NoCallInProgress =>
        /\ connected <=> serial # None
        /\ connected => serial \in opened

\* start and query have been called, one after the other, and the
\* wrapper is connected
C36_Witness ==
    /\ NoCallInProgress
    /\ {"start", "query"} \subseteq called
    /\ connected
    /\ serial \in opened

\* C33: map_pin_number(n) returns the character chr(ord('a') + n) for the
\* pins 2 to 19 and raises ValueError for every other pin number: 0, 1,
\* 20 and above, and every negative number.
C33_InvalidPinNumbersRaise ==
    (callee = "map_pin_number" /\ returned # NoResult) =>
        IF arguments[1] \in 2..(NumPins - 1)
        THEN returned = Return(<<chr(ord("a") + arguments[1])>>)
        ELSE returned.kind = "ValueError"

\* the invocations among the first n of runs that end the retrying: those
\* that return or raise an exception that is not of a configured class
Ending(exceptions, runs, n) ==
    { k \in 1..n : runs[k].kind = "return" \/ ~Caught(runs[k].kind, exceptions) }

\* C40: a function decorated with retry is invoked again only after an
\* exception of the configured class: the call ends with what the first
\* invocation that returns or raises another class ends with, and no
\* invocation follows it; when every invocation raises the configured class
\* the call ends with the exception of the last one, the one after times
\* retries.
C40_RetryOnlyConfigured ==
    (callee = "retry" /\ returned # NoResult) =>
        LET times == arguments[1]
            ending == Ending(arguments[2], arguments[3], times + 1)
            last == IF ending = {} THEN times + 1
                    ELSE CHOOSE k \in ending : \A j \in ending : k <= j
        IN  /\ returned.invoked = last
            /\ returned.kind = arguments[3][last].kind
            /\ returned.val = arguments[3][last].val

\* a call returns what its third invocation returned, after a first
\* invocation that raised the configured class and a second that raised a
\* subclass of it
C40_Witness ==
    /\ callee = "retry"
    /\ arguments[2] = {"RuntimeError"}
    /\ arguments[3][1].kind = "RuntimeError"
    /\ arguments[3][2].kind = "NotImplementedError"
    /\ returned.kind = "return"
    /\ returned.invoked = 3

\* robot r ends a call of get_start_button_pressed: the step that clears the
\* event and returns what is_set gave
ClearsEvent(r) ==
    /\ robots[r].pc \in {"ws_clear", "loop_clear"}
    /\ robots'[r].pc \in {"loop_button", "loop_sleep", "load"}

\* C38: a remote start event is reported exactly once: every event that
\* _process_remote_start has set, also one that arrives while a thread is
\* inside get_start_button_pressed, makes a later call return True, so the
\* call that clears an event is one that returns True.
C38_EventReportedOnce ==
    [][\A r \in Robots :
          (ClearsEvent(r) /\ robots[r]._start_pressed # "clear") =>
              robots[r].pressed]_vars

\* the candidate the loop that discovery is in comes to next
NextCandidate == <<IF at = "ports" THEN "usb" ELSE "manual", idx>>

PinOperation == npinops' = npinops + 1

\* the operation o is not permitted when the pins cache the modes m: the
\* pin is reserved, the value assigned to mode is no GPIOPinMode, a digital
\* write finds a mode other than OUTPUT, or an analog read finds a mode
\* other than INPUT or a pin that is not one of 14 to 19
NotPermitted(o, m) ==
    \/ o.pin \in {0, 1}
    \/ o.op = "mode.set" /\ o.value \notin GPIOPinModes
    \/ o.op = "digital_write" /\ m[o.pin] # "OUTPUT"
    \/ o.op = "analog_read" /\ (m[o.pin] # "INPUT" \/ o.pin \notin 14..19)

ModeCommanded(index, command) ==
    IF command[2] = chr(ord("a") + index) /\ command[1] \in {"i", "p", "o"}
    THEN CHOOSE value \in GPIOPinModes : MODE_CHAR_MAP[value] = command[1]
    ELSE "none"

\* the mode of the last mode command of the pin among the first n requests
\* that the board accepted, INPUT when there is none
RECURSIVE LastAccepted(_, _)
LastAccepted(index, n) ==
    IF n = 0 THEN "INPUT"
    ELSE IF /\ requests[n].outcome = "ACK"
            /\ ModeCommanded(index, requests[n].command) # "none"
    THEN ModeCommanded(index, requests[n].command)
    ELSE LastAccepted(index, n - 1)

\* C32: the mode getter of a pin returns the cached mode, which is INPUT at
\* first and then the value of the last mode assignment whose command the
\* board accepted; an assignment that raises leaves the cached mode as it
\* is, and an assignment to one pin leaves the cached modes of the other
\* pins as they are.
C32_CachedModeIsLastAccepted ==
    /\ [](\A index \in DOMAIN _mode :
              _mode[index] = LastAccepted(index, Len(requests)))
    /\ [][PinOperation =>
            /\ (pinop'.op = "mode.get" /\ pinop'.pin \notin {0, 1}) =>
                 /\ pinop'.result = Return(<<_mode[pinop'.pin]>>)
                 /\ pinop'.result.val[1] =
                      LastAccepted(pinop'.pin, Len(requests))
            /\ (pinop'.op = "mode.set"
                   /\ pinop'.result.kind # "returnNone") => _mode' = _mode
            /\ pinop'.op = "mode.set" =>
                 \A index \in DOMAIN _mode :
                     index # pinop'.pin => _mode'[index] = _mode[index]
            /\ pinop'.op # "mode.set" => _mode' = _mode]_vars

\* the assignment of a mode to a pin has raised because the board answered
\* NACK, and the pin still caches OUTPUT, the mode of the assignment before
\* it that the board accepted
C32_Witness ==
    /\ pinop.op = "mode.set"
    /\ pinop.value = "INPUT_PULLUP"
    /\ pinop.result.kind = "RuntimeError"
    /\ Len(requests) = 2
    /\ requests[1].outcome = "ACK"
    /\ _mode[pinop.pin] = "OUTPUT"

\* thread t ends a setter of a segment: the step of set_leds
Stores(t) == setters[t].pc = "fetched" /\ setters'[t].pc = "idle"

\* C39: setting one colour segment of a simulated user LED changes only
\* that segment: the two other segments of that LED and the segments of
\* the other LEDs keep their values, also when two threads set different
\* segments of one LED at the same time.
C39_OnlyThatSegmentChanges ==
    [][\A t \in Threads :
          Stores(t) =>
              \A n \in LedNums, segment \in Segments :
                  (n # setters[t].led \/ segment # setters[t].segment) =>
                      get_leds(leds'[n])[SegmentPosition[segment]] =
                          get_leds(leds[n])[SegmentPosition[segment]]]_vars

====
